---------------------------- MODULE Spec2Model ----------------------------
(***************************************************************************)
(* Model of the certificate scanner of k8s-certs-manager                   *)
(* (src/src/certs_analyzer/scanner.py, class CertificateScanner).          *)
(*                                                                         *)
(* Strings (paths, certificate names, argument keys) are sequences of      *)
(* one-character strings, so that str.startswith, the `in` substring test, *)
(* str.lower and the pathlib accessors (parent, name, stem, the / join)    *)
(* are computed character by character as Python computes them.            *)
(***************************************************************************)
EXTENDS Integers, Sequences, FiniteSets, TLC

(***************************************************************************)
(* Words the paths and names of the model are made of.                     *)
(***************************************************************************)
s_etc == <<"e", "t", "c">>
s_kubernetes == <<"k", "u", "b", "e", "r", "n", "e", "t", "e", "s">>
s_pki == <<"p", "k", "i">>
s_var == <<"v", "a", "r">>
s_lib == <<"l", "i", "b">>
s_minikube == <<"m", "i", "n", "i", "k", "u", "b", "e">>
s_certs == <<"c", "e", "r", "t", "s">>
s_ssl == <<"s", "s", "l">>
s_usr == <<"u", "s", "r">>
s_share == <<"s", "h", "a", "r", "e">>
s_local == <<"l", "o", "c", "a", "l">>
s_ca_certificates == <<"c", "a", "-", "c", "e", "r", "t", "i", "f", "i", "c", "a", "t", "e", "s">>
s_opt == <<"o", "p", "t">>
s_custom == <<"c", "u", "s", "t", "o", "m">>
s_data == <<"d", "a", "t", "a">>
s_my_pki_store == <<"m", "y", "-", "p", "k", "i", "-", "s", "t", "o", "r", "e">>
s_etcd == <<"e", "t", "c", "d">>
s_ca == <<"c", "a">>
s_apiserver == <<"a", "p", "i", "s", "e", "r", "v", "e", "r">>
s_peer == <<"p", "e", "e", "r">>
s_cert == <<"c", "e", "r", "t">>
s_PKI == <<"P", "K", "I">>
s_dot_crt == <<".", "c", "r", "t">>
s_dot_pem == <<".", "p", "e", "m">>
s_dash_pki == <<"-", "p", "k", "i">>
Slash == <<"/">>
Empty == <<>>

(***************************************************************************)
(* Python str operations.                                                  *)
(***************************************************************************)
\* str.startswith
StartsWith(s, p) == Len(p) <= Len(s) /\ SubSeq(s, 1, Len(p)) = p

\* str.endswith
EndsWith(s, p) == Len(p) <= Len(s) /\ SubSeq(s, Len(s) - Len(p) + 1, Len(s)) = p

\* the substring test `p in s`
Contains(s, p) == \E i \in 0..(Len(s) - Len(p)) : SubSeq(s, i + 1, i + Len(p)) = p

\* str.lower, character by character
LowerChar(c) ==
    CASE c = "A" -> "a" [] c = "B" -> "b" [] c = "C" -> "c" [] c = "D" -> "d"
      [] c = "E" -> "e" [] c = "F" -> "f" [] c = "G" -> "g" [] c = "H" -> "h"
      [] c = "I" -> "i" [] c = "J" -> "j" [] c = "K" -> "k" [] c = "L" -> "l"
      [] c = "M" -> "m" [] c = "N" -> "n" [] c = "O" -> "o" [] c = "P" -> "p"
      [] c = "Q" -> "q" [] c = "R" -> "r" [] c = "S" -> "s" [] c = "T" -> "t"
      [] c = "U" -> "u" [] c = "V" -> "v" [] c = "W" -> "w" [] c = "X" -> "x"
      [] c = "Y" -> "y" [] c = "Z" -> "z" [] OTHER -> c

Lower(s) == [i \in 1..Len(s) |-> LowerChar(s[i])]

(***************************************************************************)
(* pathlib.PurePosixPath operations on normalised path strings (no         *)
(* trailing slash, no repeated slash).                                     *)
(***************************************************************************)
\* position of the last "/" of s, 0 when there is none
LastSlash(s) ==
    IF \E i \in 1..Len(s) : s[i] = "/"
    THEN CHOOSE i \in 1..Len(s) : s[i] = "/" /\ \A j \in (i + 1)..Len(s) : s[j] # "/"
    ELSE 0

\* Path.is_absolute
is_absolute(p) == Len(p) > 0 /\ p[1] = "/"

\* Path.name
PathName(p) == SubSeq(p, LastSlash(p) + 1, Len(p))

\* Path.parent ("." for a bare relative name, "/" directly under the root)
PathParent(p) ==
    LET k == LastSlash(p)
    IN  IF k = 0 THEN <<".">>
        ELSE IF k = 1 THEN Slash
        ELSE SubSeq(p, 1, k - 1)

\* position of the last "." of a file name, 0 when it has no suffix
\* (a leading dot does not start a suffix)
LastDot(n) ==
    IF \E i \in 2..Len(n) : n[i] = "."
    THEN CHOOSE i \in 2..Len(n) : n[i] = "." /\ \A j \in (i + 1)..Len(n) : n[j] # "."
    ELSE 0

\* Path.stem
PathStem(p) ==
    LET n == PathName(p)
        k == LastDot(n)
    IN  IF k = 0 \/ k = Len(n) THEN n ELSE SubSeq(n, 1, k - 1)

\* Path.suffix
PathSuffix(p) ==
    LET n == PathName(p)
        k == LastDot(n)
    IN  IF k = 0 \/ k = Len(n) THEN Empty ELSE SubSeq(n, k, Len(n))

\* the / operator: an absolute right operand replaces the left one
PathJoin(base, rel) ==
    IF is_absolute(rel) THEN rel
    ELSE IF rel = Empty THEN base
    ELSE IF base = Slash THEN base \o rel
    ELSE base \o Slash \o rel

\* Path.is_relative_to: whole path components
is_relative_to(p, base) == p = base \/ StartsWith(p, base \o Slash)

\* an absolute path from its components
RECURSIVE AbsPath(_)
AbsPath(segs) ==
    IF segs = <<>> THEN Empty ELSE Slash \o Head(segs) \o AbsPath(Tail(segs))

(***************************************************************************)
(* Directories named in the source.                                        *)
(***************************************************************************)
EtcKubernetesPki == AbsPath(<<s_etc, s_kubernetes, s_pki>>)
VarLibMinikubeCerts == AbsPath(<<s_var, s_lib, s_minikube, s_certs>>)
EtcKubernetes == AbsPath(<<s_etc, s_kubernetes>>)
EtcSslCerts == AbsPath(<<s_etc, s_ssl, s_certs>>)
UsrShareCaCertificates == AbsPath(<<s_usr, s_share, s_ca_certificates>>)
EtcCaCertificates == AbsPath(<<s_etc, s_ca_certificates>>)
UsrLocalShareCaCertificates == AbsPath(<<s_usr, s_local, s_share, s_ca_certificates>>)

\* _is_kubernetes_cert_directory: the allow-list
k8s_cert_dirs == <<EtcKubernetesPki, VarLibMinikubeCerts, EtcKubernetes>>

\* _is_kubernetes_cert_directory: the deny-list
system_cert_dirs ==
    <<EtcSslCerts, UsrShareCaCertificates, EtcCaCertificates, UsrLocalShareCaCertificates>>

\* the classifier with the substring rule tried before the deny-list
is_kubernetes_cert_directory_SubstringFirst(directory) ==
    LET dir_str == directory
        low == Lower(dir_str)
    IN  IF Contains(low, s_pki) \/ Contains(low, s_kubernetes) THEN TRUE
        ELSE IF \E i \in 1..Len(system_cert_dirs) : StartsWith(dir_str, system_cert_dirs[i])
        THEN FALSE
        ELSE IF \E i \in 1..Len(k8s_cert_dirs) : StartsWith(dir_str, k8s_cert_dirs[i])
        THEN TRUE
        ELSE Contains(low, s_minikube) /\ Contains(low, s_cert)

\* _is_kubernetes_cert_directory
is_kubernetes_cert_directory(directory) ==
    LET dir_str == directory
        low == Lower(dir_str)
    IN  IF \E i \in 1..Len(system_cert_dirs) : StartsWith(dir_str, system_cert_dirs[i])
        THEN FALSE
        ELSE IF \E i \in 1..Len(k8s_cert_dirs) : StartsWith(dir_str, k8s_cert_dirs[i])
        THEN TRUE
        ELSE IF Contains(low, s_pki) \/ Contains(low, s_kubernetes) THEN TRUE
        ELSE IF Contains(low, s_minikube) /\ Contains(low, s_cert) THEN TRUE
        ELSE FALSE


(***************************************************************************)
(* State.                                                                  *)
(*   fs, cert_base_path, pods, api, now, faults                            *)
(*                                        the environment of one scan      *)
(*   pc, discovered_certs, filesystem_certs, all_cert_paths, idx, results  *)
(*                                        scan_cluster_certificates        *)
(*   cl_dir, cl_result                    one call of the classifier       *)
(*                                        (cl_result: None, or <<bool>>)   *)
(*   rs_path_str, rs_mount_map, rs_result one call of the path resolver    *)
(*   pr_name, pr_lines, pr_records        calls of _parse_openssl_output   *)
(*                                        on one text: its arguments and   *)
(*                                        the records returned so far      *)
(*   mon_pc, mon_max_wait, mon_elapsed, mon_sends, mon_seen, mon_ret,      *)
(*   mon_html, mon_dir                                                     *)
(*                                        monitor_certificate_scan of      *)
(*                                        src/src/slack_app/notifier.py:   *)
(*                                        where it is, its max_wait_time,  *)
(*                                        the seconds since start_time,    *)
(*                                        the calls of the Slack client,   *)
(*                                        the conditions the output file   *)
(*                                        was found in, the value returned,*)
(*                                        what became of the HTML report,  *)
(*                                        the JSON files of the latest pass*)
(*   dp_result                            one call of                      *)
(*                                        _discover_certificates_from_     *)
(*                                        static_pods on the pods listed   *)
(*                                        (None, or <<mapping>>)           *)
(*   df_result                            one call of                      *)
(*                                        _discover_certificates_from_     *)
(*                                        filesystem (None, or <<mapping>>)*)
(*   an_scan, an_enabled, an_analysis     one call of analyze_results: the *)
(*                                        scan results given, whether an   *)
(*                                        OpenAI key is configured, the    *)
(*                                        analysis returned (None, or      *)
(*                                        a sequence of it alone)          *)
(***************************************************************************)
VARIABLES fs, cert_base_path, pods, api, now, faults,
          pc, discovered_certs, filesystem_certs, all_cert_paths, idx, results,
          cl_dir, cl_result,
          rs_path_str, rs_mount_map, rs_result,
          pr_name, pr_lines, pr_records,
          mon_pc, mon_max_wait, mon_elapsed, mon_sends, mon_seen, mon_ret, mon_html, mon_dir,
          dp_result, df_result,
          an_scan, an_enabled, an_analysis

envVars == <<fs, cert_base_path, pods, api, now, faults>>
scanVars == <<pc, discovered_certs, filesystem_certs, all_cert_paths, idx, results>>
clVars == <<cl_dir, cl_result>>
rsVars == <<rs_path_str, rs_mount_map, rs_result>>
prVars == <<pr_name, pr_lines, pr_records>>
monVars == <<mon_pc, mon_max_wait, mon_elapsed, mon_sends, mon_seen, mon_ret, mon_html, mon_dir>>
dpVars == <<dp_result, df_result>>
anVars == <<an_scan, an_enabled, an_analysis>>
vars == <<envVars, scanVars, clVars, rsVars, prVars, monVars, dpVars, anVars>>

\* Optional[...]: None is the empty sequence
None == <<>>

(***************************************************************************)
(* The Directory Classifier on its own: one directory, one call.           *)
(***************************************************************************)
ClassifyPrefixes ==
    { EtcSslCerts, UsrShareCaCertificates, EtcCaCertificates, UsrLocalShareCaCertificates,
      EtcKubernetesPki, VarLibMinikubeCerts, EtcKubernetes,
      AbsPath(<<s_opt, s_custom, s_certs>>), AbsPath(<<s_data, s_my_pki_store>>),
      AbsPath(<<s_data>>), AbsPath(<<s_var, s_lib, s_minikube>>),
      AbsPath(<<s_etc, s_ssl>>), AbsPath(<<s_opt, s_PKI>>) }

ClassifySuffixes ==
    { Empty, Slash \o s_pki, Slash \o s_kubernetes, Slash \o s_etcd, s_dash_pki,
      Slash \o s_cert, Slash \o s_minikube }

ClassifyDirs == { p \o s : p \in ClassifyPrefixes, s \in ClassifySuffixes }

Unset == "unset"

NoScan ==
    /\ fs = {} /\ cert_base_path = EtcKubernetesPki /\ pods = <<>> /\ api = "none" /\ now = 0
    /\ faults = <<>>
    /\ pc = "idle" /\ discovered_certs = <<>> /\ filesystem_certs = <<>>
    /\ all_cert_paths = <<>> /\ idx = 0 /\ results = <<>>

NoClassify == cl_dir = Empty /\ cl_result = None

NoResolve == rs_path_str = Empty /\ rs_mount_map = <<>> /\ rs_result = <<Unset>>

NoParse == pr_name = Empty /\ pr_lines = <<>> /\ pr_records = <<>>

NoMonitor ==
    /\ mon_pc = "idle" /\ mon_max_wait = 0 /\ mon_elapsed = 0
    /\ mon_sends = <<>> /\ mon_seen = {} /\ mon_ret = "none" /\ mon_html = "none"
    /\ mon_dir = {}

NoDiscover == dp_result = None /\ df_result = None

NoAnalyze == an_scan = <<>> /\ an_enabled = FALSE /\ an_analysis = None

InitClassify ==
    /\ NoScan /\ NoResolve /\ NoParse /\ NoMonitor /\ NoDiscover /\ NoAnalyze
    /\ cl_dir \in ClassifyDirs
    /\ cl_result = None

Classify ==
    /\ cl_dir # Empty
    /\ cl_result = None
    /\ cl_result' = <<is_kubernetes_cert_directory(cl_dir)>>
    /\ UNCHANGED <<envVars, scanVars, rsVars, prVars, monVars, dpVars, anVars, cl_dir>>

NextClassify == Classify

SpecClassify == InitClassify /\ [][NextClassify]_vars

(***************************************************************************)
(* C8.  The classifier applies deny-list, allow-list, "pki"/"kubernetes",  *)
(* "minikube" and "cert", else false, the first matching rule deciding.    *)
(***************************************************************************)
\* d is a listed directory or lies below one in the directory tree
UnderAny(d, dirs) == \E i \in 1..Len(dirs) : is_relative_to(d, dirs[i])

\* d begins with the text of a listed directory
PrefixedByAny(d, dirs) == \E i \in 1..Len(dirs) : StartsWith(d, dirs[i])

HasPkiOrKubernetes(d) == Contains(Lower(d), s_pki) \/ Contains(Lower(d), s_kubernetes)

HasMinikubeAndCert(d) == Contains(Lower(d), s_minikube) /\ Contains(Lower(d), s_cert)

\* C8: a directory under a deny-listed one is false whatever else its path
\* contains; a directory no deny-list entry matches is true when the
\* allow-list, the pki/kubernetes rule or the minikube+cert rule matches and
\* false otherwise; and the five named directories get the stated verdicts.
C8_ClassifierRuleOrder ==
    cl_result # None =>
        LET verdict == cl_result[1]
        IN  /\ UnderAny(cl_dir, system_cert_dirs) => verdict = FALSE
            /\ ~PrefixedByAny(cl_dir, system_cert_dirs) =>
                  verdict = (\/ UnderAny(cl_dir, k8s_cert_dirs)
                             \/ HasPkiOrKubernetes(cl_dir)
                             \/ HasMinikubeAndCert(cl_dir))
            /\ cl_dir = EtcSslCerts => verdict = FALSE
            /\ cl_dir = EtcKubernetesPki => verdict = TRUE
            /\ cl_dir = VarLibMinikubeCerts => verdict = TRUE
            /\ cl_dir = AbsPath(<<s_opt, s_custom, s_certs>>) => verdict = FALSE
            /\ cl_dir = AbsPath(<<s_data, s_my_pki_store>>) => verdict = TRUE

\* a directory below a deny-listed one whose path contains "pki" was classified
C8_Witness ==
    /\ cl_result = <<FALSE>>
    /\ cl_dir = EtcSslCerts \o Slash \o s_pki

(***************************************************************************)
(* The file system: fs is the set of regular files; a directory exists     *)
(* when a file lies below it.                                              *)
(***************************************************************************)
\* Path.is_dir
is_dir(p, fsys) ==
    \E f \in fsys : f # p /\ (IF p = Slash THEN is_absolute(f) ELSE is_relative_to(f, p))

\* Path.is_file
is_file(p, fsys) == p \in fsys

\* Path.exists
exists(p, fsys) == is_file(p, fsys) \/ is_dir(p, fsys)

\* the concatenation of a sequence of sequences
RECURSIVE Flatten(_)
Flatten(ss) == IF ss = <<>> THEN <<>> ELSE Head(ss) \o Flatten(Tail(ss))

\* the first path of cands that exists, None when none does
FirstExisting(cands, fsys) ==
    IF \E i \in 1..Len(cands) : exists(cands[i], fsys)
    THEN cands[CHOOSE i \in 1..Len(cands) :
                  exists(cands[i], fsys) /\ \A j \in 1..(i - 1) : ~exists(cands[j], fsys)]
    ELSE None

(***************************************************************************)
(* _resolve_cert_path.  Every attempt of the method is "return this path   *)
(* if it exists", so the method is the first existing path of the ordered  *)
(* list of its attempts.  mount_map is the dict as the sequence of its     *)
(* items [k |-> volume name, v |-> directory], in insertion order.         *)
(* Path.is_relative_to is present (Python 3.9 and later).                  *)
(***************************************************************************)
\* _resolve_cert_path: potential_bases
potential_bases(base) == <<base, VarLibMinikubeCerts, EtcKubernetesPki>>

\* the resolver without its first attempt: the bases are searched at once
AttemptDirect_Skipped(path) == <<>>

\* lines 278-281: an absolute path is tried as-is when its parent passes the classifier
AttemptDirect(path) ==
    IF is_absolute(path) /\ is_kubernetes_cert_directory(PathParent(path))
    THEN <<path>> ELSE <<>>

\* lines 285-316 without the test of line 277: the bases are searched for a
\* relative path too
AttemptBases_RelativeToo(path, base) ==
    LET file_name == PathName(path)
        bases == potential_bases(base)
    IN  Flatten([i \in 1..Len(bases) |->
            (IF is_relative_to(path, bases[i]) THEN <<path>> ELSE <<>>)
            \o << PathJoin(bases[i], file_name),
                  PathJoin(PathJoin(bases[i], s_etcd), file_name),
                  PathJoin(bases[i], file_name) >>])

\* lines 285-316: per base, the path itself when under the base, base/name,
\* then base/etcd/name and base/name again
AttemptBases(path, base) ==
    IF is_absolute(path)
    THEN LET file_name == PathName(path)
             bases == potential_bases(base)
         IN  Flatten([i \in 1..Len(bases) |->
                 (IF is_relative_to(path, bases[i]) THEN <<path>> ELSE <<>>)
                 \o << PathJoin(bases[i], file_name),
                       PathJoin(PathJoin(bases[i], s_etcd), file_name),
                       PathJoin(bases[i], file_name) >>])
    ELSE <<>>

\* lines 319-323: every mount whose name occurs in the raw string
AttemptMounts(path_str, mount_map) ==
    Flatten([i \in 1..Len(mount_map) |->
        IF Contains(path_str, mount_map[i].k) \/ StartsWith(path_str, mount_map[i].k)
        THEN <<PathJoin(mount_map[i].v, PathName(path_str))>>
        ELSE <<>>])

\* the resolver without the join of a relative path to cert_base_path
AttemptRelative_Skipped(path, base) == <<>>

\* lines 326-329: a relative path joined to cert_base_path
AttemptRelative(path, base) ==
    IF ~is_absolute(path) THEN <<PathJoin(base, path)>> ELSE <<>>

\* lines 332-342: by file name in the bases that exist and pass the classifier
AttemptLastResort(path, base, fsys) ==
    LET file_name == PathName(path)
        bases == potential_bases(base)
    IN  Flatten([i \in 1..Len(bases) |->
            IF exists(bases[i], fsys) /\ is_kubernetes_cert_directory(bases[i])
            THEN << PathJoin(bases[i], file_name),
                    PathJoin(PathJoin(bases[i], s_etcd), file_name) >>
            ELSE <<>>])

\* _resolve_cert_path
resolve_cert_path(path_str, mount_map, base, fsys) ==
    FirstExisting(AttemptDirect(path_str)
                  \o AttemptBases(path_str, base)
                  \o AttemptMounts(path_str, mount_map)
                  \o AttemptRelative(path_str, base)
                  \o AttemptLastResort(path_str, base, fsys), fsys)

(***************************************************************************)
(* The files and directories the environments of the model are drawn from. *)
(***************************************************************************)
s_k8s_certs == <<"k", "8", "s", "-", "c", "e", "r", "t", "s">>
s_ca_certs == <<"c", "a", "-", "c", "e", "r", "t", "s">>
s_run == <<"r", "u", "n">>
s_secrets == <<"s", "e", "c", "r", "e", "t", "s">>

OptCustomCerts == AbsPath(<<s_opt, s_custom, s_certs>>)
RunSecrets == AbsPath(<<s_run, s_secrets>>)

ca_crt == s_ca \o s_dot_crt
apiserver_crt == s_apiserver \o s_dot_crt
peer_crt == s_peer \o s_dot_crt

F_pki_ca == PathJoin(EtcKubernetesPki, ca_crt)
F_pki_apiserver == PathJoin(EtcKubernetesPki, apiserver_crt)
F_pki_etcd_peer == PathJoin(PathJoin(EtcKubernetesPki, s_etcd), peer_crt)
F_minikube_ca == PathJoin(VarLibMinikubeCerts, ca_crt)
F_ssl_ca == PathJoin(EtcSslCerts, ca_crt)
F_custom_apiserver == PathJoin(OptCustomCerts, apiserver_crt)

\* the configured cert_base_path: the default, or an OS trust store
BasePaths == {EtcKubernetesPki, EtcSslCerts}

(***************************************************************************)
(* The Path Resolver on its own: one raw path, one mount map, one call.    *)
(***************************************************************************)
\* a file two levels below the OS trust store: /etc/ssl/certs/pki/ca.crt
F_ssl_nested == PathJoin(PathJoin(EtcSslCerts, s_pki), ca_crt)

\* the CA of etcd: /etc/kubernetes/pki/etcd/ca.crt
F_pki_etcd_ca == PathJoin(PathJoin(EtcKubernetesPki, s_etcd), ca_crt)

\* private keys: /etc/kubernetes/pki/apiserver.key and /etc/kubernetes/pki/sa.key.pem
F_pki_apiserver_key == PathJoin(EtcKubernetesPki, s_apiserver \o <<".", "k", "e", "y">>)
F_pki_sa_key_pem == PathJoin(EtcKubernetesPki, <<"s", "a", ".", "k", "e", "y">> \o s_dot_pem)

\* a copy of the CA in a sub-directory: /etc/kubernetes/pki/backup/ca.crt
F_pki_backup_ca ==
    PathJoin(PathJoin(EtcKubernetesPki, <<"b", "a", "c", "k", "u", "p">>), ca_crt)

ResolveFiles ==
    {F_pki_ca, F_pki_apiserver, F_pki_etcd_peer, F_minikube_ca, F_ssl_ca, F_custom_apiserver,
     F_ssl_nested, F_pki_etcd_ca}

ResolveRawPaths ==
    ResolveFiles \cup
    { ca_crt, PathJoin(s_etcd, peer_crt), PathJoin(s_k8s_certs, ca_crt),
      PathJoin(PathJoin(s_k8s_certs, s_etcd), ca_crt),
      PathJoin(RunSecrets, apiserver_crt), PathJoin(AbsPath(<<s_k8s_certs>>), peer_crt) }

ResolveMountMaps ==
    { <<>>,
      <<[k |-> s_k8s_certs, v |-> EtcKubernetesPki]>>,
      <<[k |-> s_ca_certs, v |-> EtcSslCerts],
        [k |-> s_k8s_certs, v |-> PathJoin(EtcKubernetesPki, s_etcd)]>>,
      <<[k |-> s_ca, v |-> VarLibMinikubeCerts]>> }

InitResolve ==
    /\ fs \in SUBSET ResolveFiles
    /\ cert_base_path \in BasePaths
    /\ pods = <<>> /\ api = "none" /\ now = 0 /\ faults = <<>>
    /\ pc = "idle" /\ discovered_certs = <<>> /\ filesystem_certs = <<>>
    /\ all_cert_paths = <<>> /\ idx = 0 /\ results = <<>>
    /\ NoClassify /\ NoParse /\ NoMonitor /\ NoDiscover /\ NoAnalyze
    /\ rs_path_str \in ResolveRawPaths
    /\ rs_mount_map \in ResolveMountMaps
    /\ rs_result = <<Unset>>

Resolve ==
    /\ rs_path_str # Empty
    /\ rs_result = <<Unset>>
    /\ rs_result' = resolve_cert_path(rs_path_str, rs_mount_map, cert_base_path, fs)
    /\ UNCHANGED <<envVars, scanVars, clVars, prVars, monVars, dpVars, anVars, rs_path_str, rs_mount_map>>

NextResolve == Resolve

SpecResolve == InitResolve /\ [][NextResolve]_vars

(***************************************************************************)
(* C10.  An absolute raw path that exists and whose parent directory       *)
(* passes the classifier is returned as it is, whatever else exists under  *)
(* the candidate bases and whatever the mount map holds.                   *)
(***************************************************************************)
C10_AbsoluteExistingAccepted ==
    (/\ rs_result # <<Unset>>
     /\ is_absolute(rs_path_str)
     /\ exists(rs_path_str, fs)
     /\ is_kubernetes_cert_directory(PathParent(rs_path_str)))
    => rs_result = rs_path_str

\* the raw path was returned although a file of the same name exists under
\* the configured base and a mount of the map is named in no part of it
C10_Witness ==
    /\ rs_path_str = F_minikube_ca
    /\ rs_result = F_minikube_ca
    /\ cert_base_path = EtcKubernetesPki
    /\ F_pki_ca \in fs
    /\ rs_mount_map # <<>>

(***************************************************************************)
(* Python dict: the sequence of its items [k |-> key, v |-> value] in      *)
(* insertion order; assigning to a present key keeps its position.         *)
(***************************************************************************)
DictHas(d, key) == \E i \in 1..Len(d) : d[i].k = key

\* dict.get(key, default)
DictGet(d, key, default) ==
    IF DictHas(d, key) THEN d[CHOOSE i \in 1..Len(d) : d[i].k = key].v ELSE default

\* d[key] = val
DictSet(d, key, val) ==
    IF DictHas(d, key)
    THEN [i \in 1..Len(d) |-> IF d[i].k = key THEN [k |-> key, v |-> val] ELSE d[i]]
    ELSE Append(d, [k |-> key, v |-> val])

\* d.update(e)
RECURSIVE DictUpdate(_, _)
DictUpdate(d, e) ==
    IF e = <<>> THEN d ELSE DictUpdate(DictSet(d, Head(e).k, Head(e).v), Tail(e))

DictKeys(d) == {d[i].k : i \in 1..Len(d)}

DictValues(d) == {d[i].v : i \in 1..Len(d)}

(***************************************************************************)
(* More Python str operations, for the key-size string and the f-strings.  *)
(***************************************************************************)
\* str.strip
RECURSIVE Strip(_)
Strip(s) ==
    IF s = <<>> THEN s
    ELSE IF Head(s) = " " THEN Strip(Tail(s))
    ELSE IF s[Len(s)] = " " THEN Strip(SubSeq(s, 1, Len(s) - 1))
    ELSE s

\* str.replace(old, new): the occurrences of old from left to right
RECURSIVE Replace(_, _, _)
Replace(s, old, new) ==
    IF s = <<>> THEN s
    ELSE IF StartsWith(s, old) THEN new \o Replace(SubSeq(s, Len(old) + 1, Len(s)), old, new)
    ELSE <<Head(s)>> \o Replace(Tail(s), old, new)

Digits == <<"0", "1", "2", "3", "4", "5", "6", "7", "8", "9">>

IsDigit(c) == \E i \in 1..10 : Digits[i] = c

DigitVal(c) == (CHOOSE i \in 1..10 : Digits[i] = c) - 1

RECURSIVE DigitsVal(_)
DigitsVal(s) == IF s = <<>> THEN 0 ELSE DigitsVal(SubSeq(s, 1, Len(s) - 1)) * 10 + DigitVal(s[Len(s)])

\* int(s): <<n>> for an optionally signed run of digits, None for ValueError
ParseInt(s) ==
    LET t == Strip(s)
        signed == t # <<>> /\ Head(t) \in {"+", "-"}
        ds == IF signed THEN Tail(t) ELSE t
    IN  IF ds # <<>> /\ \A i \in 1..Len(ds) : IsDigit(ds[i])
        THEN <<(IF signed /\ Head(t) = "-" THEN -1 ELSE 1) * DigitsVal(ds)>>
        ELSE None

\* str(n) of an f-string
RECURSIVE NatToStr(_)
NatToStr(n) == IF n < 10 THEN <<Digits[n + 1]>> ELSE NatToStr(n \div 10) \o <<Digits[(n % 10) + 1]>>

IntToStr(n) == IF n < 0 THEN <<"-">> \o NatToStr(-n) ELSE NatToStr(n)

(***************************************************************************)
(* The text `openssl x509 -text` prints, as its stripped lines.  A line is *)
(* a record whose kind says which of the parser's tests it satisfies:      *)
(*   Subject, Issuer      "Subject: <dn>", dn the comma-separated parts    *)
(*   NotBefore, NotAfter  "Not After : <date>"                             *)
(*   SANHeader            "X509v3 Subject Alternative Name:"               *)
(*   Names                "DNS:a, DNS:b, IP Address:c", as its tokens      *)
(*   PKAlgorithm          "Public Key Algorithm: <alg>"                    *)
(*   PublicKey            "Public-Key: <rest>", rest as characters         *)
(*   X509v3               another "X509v3 ...:" extension header           *)
(*   Field                another line with a colon                        *)
(*   Plain                a line without a colon;  Blank  an empty line    *)
(***************************************************************************)
\* line.startswith('Subject:') and the other prefix and substring tests
IsKind(line, kind) == line.kind = kind

\* 'DNS:' in line
HasDNS(line) == line.kind = "Names" /\ \E i \in 1..Len(line.tokens) : line.tokens[i].t = "DNS"

\* 'IP Address:' in line or 'IP:' in line
HasIP(line) ==
    line.kind = "Names" /\ \E i \in 1..Len(line.tokens) : line.tokens[i].t \in {"IP Address", "IP"}

\* ':' in line
HasColon(line) ==
    \/ line.kind \notin {"Plain", "Blank", "Names"}
    \/ line.kind = "Names" /\ line.tokens # <<>>

\* 'X509v3' in line
HasX509v3(line) == line.kind \in {"SANHeader", "X509v3"}

\* the values of the tokens of the given types, in order
RECURSIVE TokensOf(_, _)
TokensOf(tokens, types) ==
    IF tokens = <<>> THEN <<>>
    ELSE (IF Head(tokens).t \in types THEN <<Head(tokens).v>> ELSE <<>>)
         \o TokensOf(Tail(tokens), types)

\* _parse_dn: parts without "=" are skipped, a repeated key keeps the last value
RECURSIVE parse_dn(_)
parse_dn(parts) ==
    IF parts = <<>> THEN <<>>
    ELSE LET p == parts[Len(parts)]
             front == parse_dn(SubSeq(parts, 1, Len(parts) - 1))
         IN  IF p.eq THEN DictSet(front, p.k, p.v) ELSE front

StrptimeFormat == "%b %d %H:%M:%S %Y"

\* _parse_date answering the epoch where strptime raises
parse_date_EpochOnFailure(date_string) ==
    IF date_string.fmt = StrptimeFormat THEN <<date_string.t>> ELSE <<0>>

\* _parse_date: the GMT suffix is removed, then strptime; None when it raises.
\* A date string is [fmt, gmt, t]: its layout, whether it ends in GMT, and the
\* instant it denotes, counted in half days.
parse_date(date_string) ==
    IF date_string.fmt = StrptimeFormat THEN <<date_string.t>> ELSE None

(***************************************************************************)
(* _validate_certificate and _parse_openssl_output.  An issue (an f-string)*)
(* is the sequence of its literal pieces and formatted values.             *)
(***************************************************************************)
s_kubelet_client == <<"k", "u", "b", "e", "l", "e", "t", "-", "c", "l", "i", "e", "n", "t">>
s_etcd_client == <<"e", "t", "c", "d", "-", "c", "l", "i", "e", "n", "t">>
s_bit == <<"b", "i", "t">>

\* _validate_certificate: required_dns
required_dns ==
    <<"kubernetes", "kubernetes.default", "kubernetes.default.svc",
      "kubernetes.default.svc.cluster.local">>

\* _validate_certificate: the recommended key size
MinKeyBits == 2048

\* _parse_openssl_output: days below which a certificate is expiring soon
ExpiringSoonDays == 30

IssueExpired == <<"Certificate has expired">>

IssueExpiresIn(d) == <<"Certificate expires in ">> \o IntToStr(d) \o <<" days">>

IssueMissingDNS(required) == <<"Missing required DNS name in SAN: ", required>>

IssueKeySize(n) ==
    <<"Key size (">> \o IntToStr(n) \o <<" bits) is below recommended 2048 bits">>

IssueIssuer(cn) == <<"Unexpected issuer: ", cn, " (expected: kubernetes)">>

InSeq(x, s) == \E i \in 1..Len(s) : s[i] = x

\* _validate_certificate with the SAN rule applied to every name that contains
\* "apiserver", client certificates included
validate_certificate_AnyApiserver(cert_info) ==
    LET cert_name == cert_info.name
        dns_names == cert_info.san.dns_names
        sanIssues ==
            IF Contains(cert_name, s_apiserver)
            THEN Flatten([i \in 1..Len(required_dns) |->
                     IF InSeq(required_dns[i], dns_names) THEN <<>>
                     ELSE <<IssueMissingDNS(required_dns[i])>>])
            ELSE <<>>
        key_size == DictGet(cert_info.key_info, "size", Empty)
        size_num == ParseInt(Strip(Replace(key_size, s_bit, Empty)))
        keyIssues ==
            IF key_size # Empty /\ size_num # None /\ size_num[1] < MinKeyBits
            THEN <<IssueKeySize(size_num[1])>> ELSE <<>>
        issuer_cn == DictGet(cert_info.issuer, "CN", "")
        issuerIssues ==
            IF Contains(cert_name, s_apiserver) /\ issuer_cn # "kubernetes"
            THEN <<IssueIssuer(issuer_cn)>> ELSE <<>>
    IN  sanIssues \o keyIssues \o issuerIssues

\* _validate_certificate
validate_certificate(cert_info) ==
    LET cert_name == cert_info.name
        dns_names == cert_info.san.dns_names
        sanIssues ==
            IF /\ Contains(cert_name, s_apiserver)
               /\ ~Contains(cert_name, s_kubelet_client)
               /\ ~Contains(cert_name, s_etcd_client)
            THEN Flatten([i \in 1..Len(required_dns) |->
                     IF InSeq(required_dns[i], dns_names) THEN <<>>
                     ELSE <<IssueMissingDNS(required_dns[i])>>])
            ELSE <<>>
        key_size == DictGet(cert_info.key_info, "size", Empty)
        size_num == ParseInt(Strip(Replace(key_size, s_bit, Empty)))
        keyIssues ==
            IF key_size # Empty /\ size_num # None /\ size_num[1] < MinKeyBits
            THEN <<IssueKeySize(size_num[1])>> ELSE <<>>
        issuer_cn == DictGet(cert_info.issuer, "CN", "")
        issuerIssues ==
            IF Contains(cert_name, s_apiserver) /\ issuer_cn # "kubernetes"
            THEN <<IssueIssuer(issuer_cn)>> ELSE <<>>
    IN  sanIssues \o keyIssues \o issuerIssues

\* lines 596-634: one iteration of the loop over the lines;
\* st is [info |-> cert_info, section |-> current_section]
ParseLine(st, line) ==
    LET info == st.info
        first4 == line.kind \in {"Subject", "Issuer", "NotBefore", "NotAfter"}
        inSan == ~first4 /\ (IsKind(line, "SANHeader") \/ st.section = "san")
        info1 ==
            IF IsKind(line, "Subject") THEN [info EXCEPT !.subject = parse_dn(line.dn)]
            ELSE IF IsKind(line, "Issuer") THEN [info EXCEPT !.issuer = parse_dn(line.dn)]
            ELSE IF IsKind(line, "NotBefore")
            THEN [info EXCEPT !.validity = DictSet(@, "not_before", parse_date(line.date))]
            ELSE IF IsKind(line, "NotAfter")
            THEN [info EXCEPT !.validity = DictSet(@, "not_after", parse_date(line.date))]
            ELSE IF inSan
            THEN [info EXCEPT !.san =
                    [dns_names |-> @.dns_names \o
                        (IF HasDNS(line) THEN TokensOf(line.tokens, {"DNS"}) ELSE <<>>),
                     ip_addresses |-> @.ip_addresses \o
                        (IF HasIP(line) THEN TokensOf(line.tokens, {"IP Address", "IP"})
                         ELSE <<>>)]]
            ELSE IF IsKind(line, "PKAlgorithm")
            THEN [info EXCEPT !.key_info = DictSet(@, "algorithm", line.alg)]
            ELSE IF IsKind(line, "PublicKey")
            THEN [info EXCEPT !.key_info = DictSet(@, "size", Strip(line.rest))]
            ELSE info
        section1 == IF inSan THEN "san" ELSE st.section
        section2 ==
            IF ~IsKind(line, "Blank") /\ HasColon(line) /\ section1 = "san" /\ ~HasX509v3(line)
            THEN "None" ELSE section1
    IN  [info |-> info1, section |-> section2]

RECURSIVE ParseLines(_, _)
ParseLines(st, lines) ==
    IF lines = <<>> THEN st ELSE ParseLines(ParseLine(st, Head(lines)), Tail(lines))

\* lines 644-651 with the second threshold included in expiring_soon
status_for_Inclusive(days_until) ==
    IF days_until < 0 THEN "expired"
    ELSE IF days_until <= ExpiringSoonDays THEN "expiring_soon"
    ELSE "valid"

\* lines 644-651: the status of a certificate with days_until days left
status_for(days_until) ==
    IF days_until < 0 THEN "expired"
    ELSE IF days_until < ExpiringSoonDays THEN "expiring_soon"
    ELSE "valid"

\* lines 644-651 with the issue of an expiring certificate left out
expiry_issues_ExpiredOnly(days_until) ==
    IF days_until < 0 THEN <<IssueExpired>> ELSE <<>>

\* lines 644-651: the issue appended with the status
expiry_issues(days_until) ==
    IF days_until < 0 THEN <<IssueExpired>>
    ELSE IF days_until < ExpiringSoonDays THEN <<IssueExpiresIn(days_until)>>
    ELSE <<>>

\* timedelta.days of (not_after - now), instants counted in half days:
\* the whole days rounded towards minus infinity
DaysBetween(not_after, nowv) == (not_after - nowv) \div 2

\* lines 579-593 with the SAN lists shared between the calls: a call starts
\* from the lists the call before it filled
empty_cert_info_SharedLists(cert_name, cert_path) ==
    [name |-> cert_name, path |-> cert_path,
     subject |-> <<>>, issuer |-> <<>>, validity |-> <<>>,
     san |-> IF pr_records = <<>> THEN [dns_names |-> <<>>, ip_addresses |-> <<>>]
             ELSE pr_records[Len(pr_records)].san,
     key_info |-> <<>>, status |-> "unknown",
     days_until_expiry |-> None, issues |-> <<>>]

\* lines 579-593: the dict every call of _parse_openssl_output starts from
empty_cert_info(cert_name, cert_path) ==
    [name |-> cert_name, path |-> cert_path,
     subject |-> <<>>, issuer |-> <<>>, validity |-> <<>>,
     san |-> [dns_names |-> <<>>, ip_addresses |-> <<>>],
     key_info |-> <<>>, status |-> "unknown",
     days_until_expiry |-> None, issues |-> <<>>]

\* _parse_openssl_output, called at the instant nowv
parse_openssl_output(cert_name, cert_path, lines, nowv) ==
    LET cert_info0 == empty_cert_info(cert_name, cert_path)
        parsed == ParseLines([info |-> cert_info0, section |-> "None"], lines).info
        not_after == DictGet(parsed.validity, "not_after", None)
        dated ==
            IF not_after # None
            THEN LET days_until == DaysBetween(not_after[1], nowv)
                 IN  [parsed EXCEPT !.days_until_expiry = <<days_until>>,
                                    !.status = status_for(days_until),
                                    !.issues = expiry_issues(days_until)]
            ELSE parsed
    IN  [dated EXCEPT !.issues = @ \o validate_certificate(dated)]

(***************************************************************************)
(* Pod-based discovery.  A pod is                                          *)
(*   [name, volumes: <<[name, host_path]>>,                                *)
(*    containers: <<[args: <<string>>, volume_mounts: <<[name, mount_path]>>]>>] *)
(* with host_path None for a volume that is no hostPath volume.            *)
(***************************************************************************)
s_kube_apiserver == <<"k", "u", "b", "e", "-", "a", "p", "i", "s", "e", "r", "v", "e", "r">>
s_kube_controller_manager ==
    <<"k", "u", "b", "e", "-", "c", "o", "n", "t", "r", "o", "l", "l", "e", "r", "-", "m",
      "a", "n", "a", "g", "e", "r">>
s_kube_scheduler == <<"k", "u", "b", "e", "-", "s", "c", "h", "e", "d", "u", "l", "e", "r">>
a_tls_cert_file == <<"-", "-", "t", "l", "s", "-", "c", "e", "r", "t", "-", "f", "i", "l", "e">>
a_tls_private_key_file ==
    <<"-", "-", "t", "l", "s", "-", "p", "r", "i", "v", "a", "t", "e", "-", "k", "e", "y",
      "-", "f", "i", "l", "e">>
a_client_ca_file ==
    <<"-", "-", "c", "l", "i", "e", "n", "t", "-", "c", "a", "-", "f", "i", "l", "e">>
a_etcd_cafile == <<"-", "-", "e", "t", "c", "d", "-", "c", "a", "f", "i", "l", "e">>
a_etcd_certfile == <<"-", "-", "e", "t", "c", "d", "-", "c", "e", "r", "t", "f", "i", "l", "e">>
a_etcd_keyfile == <<"-", "-", "e", "t", "c", "d", "-", "k", "e", "y", "f", "i", "l", "e">>
a_kubelet_client_certificate ==
    <<"-", "-", "k", "u", "b", "e", "l", "e", "t", "-", "c", "l", "i", "e", "n", "t", "-",
      "c", "e", "r", "t", "i", "f", "i", "c", "a", "t", "e">>
a_kubelet_client_key ==
    <<"-", "-", "k", "u", "b", "e", "l", "e", "t", "-", "c", "l", "i", "e", "n", "t", "-",
      "k", "e", "y">>
a_service_account_key_file ==
    <<"-", "-", "s", "e", "r", "v", "i", "c", "e", "-", "a", "c", "c", "o", "u", "n", "t",
      "-", "k", "e", "y", "-", "f", "i", "l", "e">>
a_proxy_client_cert_file ==
    <<"-", "-", "p", "r", "o", "x", "y", "-", "c", "l", "i", "e", "n", "t", "-", "c", "e",
      "r", "t", "-", "f", "i", "l", "e">>
a_proxy_client_key_file ==
    <<"-", "-", "p", "r", "o", "x", "y", "-", "c", "l", "i", "e", "n", "t", "-", "k", "e",
      "y", "-", "f", "i", "l", "e">>
s_dash_server == <<"-", "s", "e", "r", "v", "e", "r">>
s_etcd_ca == <<"e", "t", "c", "d", "-", "c", "a">>
s_dash_etcd_client == <<"-", "e", "t", "c", "d", "-", "c", "l", "i", "e", "n", "t">>
s_dash_kubelet_client ==
    <<"-", "k", "u", "b", "e", "l", "e", "t", "-", "c", "l", "i", "e", "n", "t">>
s_dash_front_proxy_client ==
    <<"-", "f", "r", "o", "n", "t", "-", "p", "r", "o", "x", "y", "-", "c", "l", "i", "e",
      "n", "t">>
s_dash_cert == <<"-", "c", "e", "r", "t">>
s_dot_key == <<".", "k", "e", "y">>
s_etcd_dash == <<"e", "t", "c", "d", "-">>
s_key == <<"k", "e", "y">>
a_secure_port == <<"-", "-", "s", "e", "c", "u", "r", "e", "-", "p", "o", "r", "t">>
s_n6443 == <<"6", "4", "4", "3">>
s_dash_master == <<"-", "m", "a", "s", "t", "e", "r">>
s_dash_minikube == <<"-", "m", "i", "n", "i", "k", "u", "b", "e">>

\* STATIC_POD_PATTERNS, in the order of the dict
STATIC_POD_PATTERNS ==
    << [component |-> s_kube_apiserver, patterns |-> <<s_kube_apiserver>>],
       [component |-> s_etcd, patterns |-> <<s_etcd>>],
       [component |-> s_kube_controller_manager, patterns |-> <<s_kube_controller_manager>>],
       [component |-> s_kube_scheduler, patterns |-> <<s_kube_scheduler>>] >>

\* CERT_ARG_PATTERNS
CERT_ARG_PATTERNS ==
    << a_tls_cert_file, a_tls_private_key_file, a_client_ca_file, a_etcd_cafile,
       a_etcd_certfile, a_etcd_keyfile, a_kubelet_client_certificate, a_kubelet_client_key,
       a_service_account_key_file, a_proxy_client_cert_file, a_proxy_client_key_file >>

\* the position of the first c in s, 0 when there is none
IndexOf(s, c) ==
    IF \E i \in 1..Len(s) : s[i] = c
    THEN CHOOSE i \in 1..Len(s) : s[i] = c /\ \A j \in 1..(i - 1) : s[j] # c
    ELSE 0

\* _generate_cert_name with the file stem used as it is (line 360 without its
\* three replace calls)
generate_cert_name_PlainStem(arg_key, arg_value, component) ==
    LET base_name == PathStem(arg_value)
        name_map ==
            << [k |-> a_tls_cert_file, v |-> component \o s_dash_server],
               [k |-> a_client_ca_file, v |-> s_ca],
               [k |-> a_etcd_cafile, v |-> s_etcd_ca],
               [k |-> a_etcd_certfile, v |-> component \o s_dash_etcd_client],
               [k |-> a_kubelet_client_certificate, v |-> component \o s_dash_kubelet_client],
               [k |-> a_proxy_client_cert_file, v |-> component \o s_dash_front_proxy_client] >>
    IN  IF DictHas(name_map, arg_key) THEN DictGet(name_map, arg_key, Empty)
        ELSE IF base_name # Empty THEN component \o <<"-">> \o base_name
        ELSE component \o s_dash_cert

\* _generate_cert_name
generate_cert_name(arg_key, arg_value, component) ==
    LET base_name ==
            Replace(Replace(Replace(PathStem(arg_value), s_dot_crt, Empty),
                            s_dot_pem, Empty), s_dot_key, Empty)
        name_map ==
            << [k |-> a_tls_cert_file, v |-> component \o s_dash_server],
               [k |-> a_client_ca_file, v |-> s_ca],
               [k |-> a_etcd_cafile, v |-> s_etcd_ca],
               [k |-> a_etcd_certfile, v |-> component \o s_dash_etcd_client],
               [k |-> a_kubelet_client_certificate, v |-> component \o s_dash_kubelet_client],
               [k |-> a_proxy_client_cert_file, v |-> component \o s_dash_front_proxy_client] >>
    IN  IF DictHas(name_map, arg_key) THEN DictGet(name_map, arg_key, Empty)
        ELSE IF base_name # Empty THEN component \o <<"-">> \o base_name
        ELSE component \o s_dash_cert

\* the files of the model in the order directory listings return them
FileOrder ==
    <<F_pki_ca, F_pki_apiserver, F_pki_etcd_peer, F_minikube_ca, F_ssl_ca, F_custom_apiserver,
      F_pki_etcd_ca, F_pki_apiserver_key, F_pki_sa_key_pem, F_pki_backup_ca>>

\* Path.glob('*' + ext): the entries of directory whose name ends in ext
RECURSIVE GlobIn(_, _, _, _)
GlobIn(order, directory, ext, fsys) ==
    IF order = <<>> THEN <<>>
    ELSE (IF /\ exists(Head(order), fsys)
             /\ PathParent(Head(order)) = directory
             /\ EndsWith(PathName(Head(order)), ext)
          THEN <<Head(order)>> ELSE <<>>)
         \o GlobIn(Tail(order), directory, ext, fsys)

\* lines 452-457 and 462-467 without the test of the stem for "key"
RECURSIVE CertEntries_KeepsKeys(_, _, _)
CertEntries_KeepsKeys(files, prefix, fsys) ==
    IF files = <<>> THEN <<>>
    ELSE (IF is_file(Head(files), fsys)
          THEN <<[k |-> prefix \o PathStem(Head(files)), v |-> Head(files)]>>
          ELSE <<>>)
         \o CertEntries_KeepsKeys(Tail(files), prefix, fsys)

\* lines 452-457 and 462-467: the entries one glob adds, named prefix + stem
RECURSIVE CertEntries(_, _, _)
CertEntries(files, prefix, fsys) ==
    IF files = <<>> THEN <<>>
    ELSE (IF is_file(Head(files), fsys) /\ ~Contains(Lower(PathStem(Head(files))), s_key)
          THEN <<[k |-> prefix \o PathStem(Head(files)), v |-> Head(files)]>>
          ELSE <<>>)
         \o CertEntries(Tail(files), prefix, fsys)

\* lines 450-467: what the loop body adds for one extension
EntriesForExt(directory, ext, fsys) ==
    LET etcd_dir == PathJoin(directory, s_etcd)
    IN  CertEntries(GlobIn(FileOrder, directory, ext, fsys), Empty, fsys)
        \o (IF exists(etcd_dir, fsys) /\ is_dir(etcd_dir, fsys)
            THEN CertEntries(GlobIn(FileOrder, etcd_dir, ext, fsys), s_etcd_dash, fsys)
            ELSE <<>>)

\* _find_certificates_in_directory
find_certificates_in_directory(directory, fsys) ==
    IF ~exists(directory, fsys) \/ ~is_dir(directory, fsys) THEN <<>>
    ELSE IF ~is_kubernetes_cert_directory(directory) THEN <<>>
    ELSE DictUpdate(<<>>, EntriesForExt(directory, s_dot_crt, fsys)
                          \o EntriesForExt(directory, s_dot_pem, fsys))

\* lines 210-214: volume_map of a pod
RECURSIVE VolumeMap(_)
VolumeMap(volumes) ==
    IF volumes = <<>> THEN <<>>
    ELSE LET vol == volumes[Len(volumes)]
             front == VolumeMap(SubSeq(volumes, 1, Len(volumes) - 1))
         IN  IF vol.host_path # None THEN DictSet(front, vol.name, vol.host_path) ELSE front

\* lines 218-224: mount_map of a container
RECURSIVE MountMap(_, _)
MountMap(volume_mounts, volume_map) ==
    IF volume_mounts = <<>> THEN <<>>
    ELSE LET vm == volume_mounts[Len(volume_mounts)]
             front == MountMap(SubSeq(volume_mounts, 1, Len(volume_mounts) - 1), volume_map)
         IN  DictSet(front, vm.name,
                     IF DictHas(volume_map, vm.name)
                     THEN DictGet(volume_map, vm.name, None)
                     ELSE vm.mount_path)

\* lines 228-241: the arguments of a container, from left to right
RECURSIVE ScanArgs(_, _, _, _, _, _)
ScanArgs(cert_paths, args, mount_map, component, base, fsys) ==
    IF args = <<>> THEN cert_paths
    ELSE LET arg == Head(args)
             eq == IndexOf(arg, "=")
             key == SubSeq(arg, 1, eq - 1)
             value == SubSeq(arg, eq + 1, Len(arg))
             cert_path == resolve_cert_path(value, mount_map, base, fsys)
             next ==
                IF /\ eq # 0
                   /\ \E i \in 1..Len(CERT_ARG_PATTERNS) : Contains(key, CERT_ARG_PATTERNS[i])
                   /\ cert_path # None
                   /\ exists(cert_path, fsys)
                THEN DictSet(cert_paths, generate_cert_name(key, value, component), cert_path)
                ELSE cert_paths
         IN  ScanArgs(next, Tail(args), mount_map, component, base, fsys)

\* lines 244-251: the mounted directories of a container
RECURSIVE ScanMounts(_, _, _)
ScanMounts(cert_paths, volume_mounts, fsys) ==
    IF volume_mounts = <<>> THEN cert_paths
    ELSE LET mount_path == Head(volume_mounts).mount_path
             next ==
                IF is_kubernetes_cert_directory(mount_path)
                THEN DictUpdate(cert_paths, find_certificates_in_directory(mount_path, fsys))
                ELSE cert_paths
         IN  ScanMounts(next, Tail(volume_mounts), fsys)

\* lines 216-251: the containers of a pod, in order
RECURSIVE ScanContainers(_, _, _, _, _, _)
ScanContainers(cert_paths, containers, volume_map, component, base, fsys) ==
    IF containers = <<>> THEN cert_paths
    ELSE LET container == Head(containers)
             mount_map == MountMap(container.volume_mounts, volume_map)
             afterArgs ==
                ScanArgs(cert_paths, container.args, mount_map, component, base, fsys)
             afterMounts == ScanMounts(afterArgs, container.volume_mounts, fsys)
         IN  ScanContainers(afterMounts, Tail(containers), volume_map, component, base, fsys)

\* _extract_cert_paths_from_pod
extract_cert_paths_from_pod(pod, component, base, fsys) ==
    IF pod.containers = <<>> THEN <<>>
    ELSE ScanContainers(<<>>, pod.containers, VolumeMap(pod.volumes), component, base, fsys)

\* lines 175-182: the component of the first pattern found in the pod name, None if none
ComponentOf(pod_name) ==
    LET hit(i) == \E j \in 1..Len(STATIC_POD_PATTERNS[i].patterns) :
                      Contains(pod_name, STATIC_POD_PATTERNS[i].patterns[j])
    IN  IF \E i \in 1..Len(STATIC_POD_PATTERNS) : hit(i)
        THEN STATIC_POD_PATTERNS[CHOOSE i \in 1..Len(STATIC_POD_PATTERNS) :
                                     hit(i) /\ \A j \in 1..(i - 1) : ~hit(j)].component
        ELSE None

\* lines 171-182: the loop over the listed pods
RECURSIVE ScanPods(_, _, _, _)
ScanPods(discovered, items, base, fsys) ==
    IF items = <<>> THEN discovered
    ELSE LET pod == Head(items)
             component == ComponentOf(pod.name)
             next ==
                IF component # None
                THEN DictUpdate(discovered,
                                extract_cert_paths_from_pod(pod, component, base, fsys))
                ELSE discovered
         IN  ScanPods(next, Tail(items), base, fsys)

\* _discover_certificates_from_static_pods with the except handlers returning
\* what the loop had collected
discover_certificates_from_static_pods_KeepsPartial(apiv, items, base, fsys) ==
    IF apiv = "none" THEN <<>>
    ELSE IF apiv = "error" THEN <<>>
    ELSE ScanPods(<<>>, items, base, fsys)

\* _discover_certificates_from_static_pods; apiv is "ok" when the pod listing
\* answers, "error" when it raises (lines 169, 186-188), "pod_error" when it
\* answers and the processing of a listed pod raises (lines 171-182, 189-191;
\* for example PermissionError from Path.exists), "none" when there is no
\* API client
discover_certificates_from_static_pods(apiv, items, base, fsys) ==
    IF apiv = "none" THEN <<>>
    ELSE IF apiv = "error" THEN <<>>
    ELSE IF apiv = "pod_error" THEN <<>>
    ELSE ScanPods(<<>>, items, base, fsys)

\* lines 484-488: the directories the filesystem discoverer visits
fs_cert_dirs(base) == <<base, VarLibMinikubeCerts, EtcKubernetesPki>>

\* _discover_certificates_from_filesystem
RECURSIVE ScanDirs(_, _, _)
ScanDirs(discovered, dirs, fsys) ==
    IF dirs = <<>> THEN discovered
    ELSE LET cert_dir == Head(dirs)
             next ==
                IF exists(cert_dir, fsys) /\ is_kubernetes_cert_directory(cert_dir)
                THEN DictUpdate(discovered, find_certificates_in_directory(cert_dir, fsys))
                ELSE discovered
         IN  ScanDirs(next, Tail(dirs), fsys)

discover_certificates_from_filesystem(base, fsys) == ScanDirs(<<>>, fs_cert_dirs(base), fsys)

(***************************************************************************)
(* The static fallback table, _scan_certificate and the summary.           *)
(***************************************************************************)
s_front_proxy == <<"f", "r", "o", "n", "t", "-", "p", "r", "o", "x", "y">>
s_dash_client == <<"-", "c", "l", "i", "e", "n", "t">>
s_server == <<"s", "e", "r", "v", "e", "r">>
s_healthcheck_client ==
    <<"h", "e", "a", "l", "t", "h", "c", "h", "e", "c", "k", "-", "c", "l", "i", "e", "n",
      "t">>

PkiFile(stem) == PathJoin(EtcKubernetesPki, stem \o s_dot_crt)

PkiEtcdFile(stem) == PathJoin(PathJoin(EtcKubernetesPki, s_etcd), stem \o s_dot_crt)

\* _get_fallback_cert_paths: standard_paths
standard_paths ==
    << [k |-> s_apiserver, v |-> PkiFile(s_apiserver)],
       [k |-> s_apiserver \o s_dash_kubelet_client,
        v |-> PkiFile(s_apiserver \o s_dash_kubelet_client)],
       [k |-> s_apiserver \o s_dash_etcd_client,
        v |-> PkiFile(s_apiserver \o s_dash_etcd_client)],
       [k |-> s_ca, v |-> PkiFile(s_ca)],
       [k |-> s_front_proxy \o <<"-">> \o s_ca, v |-> PkiFile(s_front_proxy \o <<"-">> \o s_ca)],
       [k |-> s_front_proxy \o s_dash_client, v |-> PkiFile(s_front_proxy \o s_dash_client)],
       [k |-> s_etcd_ca, v |-> PkiEtcdFile(s_ca)],
       [k |-> s_etcd_dash \o s_server, v |-> PkiEtcdFile(s_server)],
       [k |-> s_etcd_dash \o s_peer, v |-> PkiEtcdFile(s_peer)],
       [k |-> s_etcd_dash \o s_healthcheck_client, v |-> PkiEtcdFile(s_healthcheck_client)] >>

\* _get_fallback_cert_paths
RECURSIVE KeepExisting(_, _)
KeepExisting(table, fsys) ==
    IF table = <<>> THEN <<>>
    ELSE (IF exists(Head(table).v, fsys) THEN <<Head(table)>> ELSE <<>>)
         \o KeepExisting(Tail(table), fsys)

\* _get_fallback_cert_paths with the test of line 522 left out
get_fallback_cert_paths_Unfiltered(fsys) == standard_paths

get_fallback_cert_paths(fsys) == KeepExisting(standard_paths, fsys)

\* line 125 with the two mappings laid end to end, a name of both kept twice
merge_cert_paths_Concatenated(filesystem, discovered) == filesystem \o discovered

\* line 125 with the operands exchanged: the filesystem entries override
merge_cert_paths_FilesystemWins(filesystem, discovered) == DictUpdate(discovered, filesystem)

\* line 125: {**filesystem_certs, **discovered_certs}
merge_cert_paths(filesystem, discovered) == DictUpdate(filesystem, discovered)

(***************************************************************************)
(* What openssl prints for each file of the model.  Instants are counted   *)
(* in half days.                                                           *)
(***************************************************************************)
GoodDate(t) == [fmt |-> StrptimeFormat, gmt |-> TRUE, t |-> t]

BadDate == [fmt |-> "%Y-%m-%dT%H:%M:%S", gmt |-> FALSE, t |-> 0]

DnPart(key, val) == [eq |-> TRUE, k |-> key, v |-> val]

L_Issuer(cn) == [kind |-> "Issuer", dn |-> <<DnPart("CN", cn)>>]

L_Subject(cn) == [kind |-> "Subject", dn |-> <<DnPart("CN", cn), DnPart("O", "system:masters")>>]

L_NotBefore(d) == [kind |-> "NotBefore", date |-> d]

L_NotAfter(d) == [kind |-> "NotAfter", date |-> d]

L_PKAlgorithm == [kind |-> "PKAlgorithm", alg |-> "rsaEncryption"]

L_PublicKey(bits) == [kind |-> "PublicKey", rest |-> <<" ", "(">> \o bits \o <<" ">> \o s_bit \o <<")">>]

L_SANHeader == [kind |-> "SANHeader"]

L_Names(toks) == [kind |-> "Names", tokens |-> toks]

L_X509v3 == [kind |-> "X509v3"]

L_Field == [kind |-> "Field"]

L_Plain == [kind |-> "Plain"]

Tok(type, val) == [t |-> type, v |-> val]

Bits2048 == <<"2", "0", "4", "8">>
Bits1024 == <<"1", "0", "2", "4">>

CertText(path) ==
    CASE path = F_pki_ca ->
            << L_Field, L_Issuer("kubernetes"), L_Plain, L_NotBefore(GoodDate(-10)),
               L_NotAfter(GoodDate(7300)), L_Subject("kubernetes"), L_PKAlgorithm,
               L_PublicKey(Bits2048), L_X509v3, L_Plain, L_Field >>
      [] path = F_pki_apiserver ->
            << L_Field, L_Issuer("kubernetes"), L_Plain, L_NotBefore(GoodDate(-10)),
               L_NotAfter(GoodDate(60)), L_Subject("kube-apiserver"), L_PKAlgorithm,
               L_PublicKey(Bits2048), L_X509v3, L_Plain, L_SANHeader,
               L_Names(<<Tok("DNS", "kubernetes"), Tok("DNS", "kubernetes.default"),
                         Tok("DNS", "kubernetes.default.svc"),
                         Tok("IP Address", "10.96.0.1")>>),
               L_Field >>
      [] path = F_pki_etcd_peer ->
            << L_Field, L_Issuer("etcd-ca"), L_Plain, L_NotBefore(GoodDate(-10)),
               L_NotAfter(BadDate), L_Subject("master"), L_PKAlgorithm,
               L_PublicKey(Bits2048), L_SANHeader,
               L_Names(<<Tok("DNS", "localhost"), Tok("IP", "127.0.0.1")>>), L_Field >>
      [] path = F_minikube_ca ->
            << L_Field, L_Issuer("minikubeCA"), L_Plain, L_NotBefore(GoodDate(-10)),
               L_Subject("minikubeCA"), L_PKAlgorithm, L_PublicKey(Bits1024), L_Field >>
      [] path = F_ssl_ca ->
            << L_Field, L_Issuer("Root CA"), L_Plain, L_NotBefore(GoodDate(-10)),
               L_NotAfter(GoodDate(20)), L_Subject("Root CA"), L_PKAlgorithm,
               L_PublicKey(Bits2048), L_Field >>
      [] OTHER ->
            << L_Field, L_Issuer("custom"), L_Plain, L_NotBefore(GoodDate(-10)),
               L_NotAfter(GoodDate(59)), L_Subject("kube-apiserver"), L_PKAlgorithm,
               L_PublicKey(Bits2048), L_Field >>

\* _scan_certificate; decode_ok says whether the openssl subprocess succeeds
scan_certificate(cert_name, cert_path, fsys, decode_ok, nowv) ==
    IF cert_path = None \/ ~exists(cert_path, fsys) THEN None
    ELSE IF ~decode_ok \/ ~is_file(cert_path, fsys) THEN None
    ELSE <<parse_openssl_output(cert_name, cert_path, CertText(cert_path), nowv)>>

\* lines 136-148 with a record of unknown status counted as valid
update_summary_UnknownValid(summary, cert_info) ==
    IF cert_info # None
    THEN LET status == cert_info[1].status
         IN  [summary EXCEPT
                !.total_certificates = @ + 1,
                !.expired = IF status = "expired" THEN @ + 1 ELSE @,
                !.expiring_soon = IF status = "expiring_soon" THEN @ + 1 ELSE @,
                !.valid = IF status \notin {"expired", "expiring_soon"} THEN @ + 1 ELSE @]
    ELSE [summary EXCEPT !.missing = @ + 1]

\* lines 136-148 with the else branch left out
update_summary_NoMissing(summary, cert_info) ==
    IF cert_info # None
    THEN LET status == cert_info[1].status
         IN  [summary EXCEPT
                !.total_certificates = @ + 1,
                !.expired = IF status = "expired" THEN @ + 1 ELSE @,
                !.expiring_soon = IF status = "expiring_soon" THEN @ + 1 ELSE @,
                !.valid = IF status = "valid" THEN @ + 1 ELSE @]
    ELSE summary

\* lines 136-148: the counters after one certificate (cert_info None or <<record>>)
update_summary(summary, cert_info) ==
    IF cert_info # None
    THEN LET status == cert_info[1].status
         IN  [summary EXCEPT
                !.total_certificates = @ + 1,
                !.expired = IF status = "expired" THEN @ + 1 ELSE @,
                !.expiring_soon = IF status = "expiring_soon" THEN @ + 1 ELSE @,
                !.valid = IF status = "valid" THEN @ + 1 ELSE @]
    ELSE [summary EXCEPT !.missing = @ + 1]

(***************************************************************************)
(* The environments of a scan.                                             *)
(***************************************************************************)
Arg(key, value) == key \o <<"=">> \o value

\* a kubeadm API server: certificates under /etc/kubernetes/pki, the OS trust
\* store mounted beside them, and an etcd client certificate that may be absent
PodApiserver ==
    [name |-> s_kube_apiserver \o s_dash_master,
     volumes |-> << [name |-> s_k8s_certs, host_path |-> EtcKubernetesPki],
                    [name |-> s_ca_certs, host_path |-> EtcSslCerts] >>,
     containers |->
        << [args |-> << Arg(a_secure_port, s_n6443),
                        Arg(a_client_ca_file, F_pki_ca),
                        Arg(a_tls_cert_file, F_pki_apiserver),
                        Arg(a_etcd_certfile, F_pki_etcd_peer) >>,
            volume_mounts |-> << [name |-> s_k8s_certs, mount_path |-> EtcKubernetesPki],
                                 [name |-> s_ca_certs, mount_path |-> EtcSslCerts] >>] >>]

\* a minikube API server
PodMinikube ==
    [name |-> s_kube_apiserver \o s_dash_minikube,
     volumes |-> << [name |-> s_k8s_certs, host_path |-> VarLibMinikubeCerts] >>,
     containers |->
        << [args |-> << Arg(a_client_ca_file, F_minikube_ca) >>,
            volume_mounts |-> << [name |-> s_k8s_certs, mount_path |-> VarLibMinikubeCerts] >>] >>]

\* a controller manager whose client CA is a file of the OS trust store,
\* mounted from a hostPath volume called "certs"
PodTrustStore ==
    [name |-> s_kube_controller_manager \o s_dash_master,
     volumes |-> << [name |-> s_certs, host_path |-> EtcSslCerts] >>,
     containers |->
        << [args |-> << Arg(a_client_ca_file, F_ssl_ca) >>,
            volume_mounts |-> << [name |-> s_certs, mount_path |-> EtcSslCerts] >>] >>]

PodLists == { <<>>, <<PodApiserver>>, <<PodMinikube>>, <<PodTrustStore>> }

Files == {F_pki_ca, F_pki_apiserver, F_pki_etcd_peer, F_minikube_ca, F_ssl_ca, F_custom_apiserver}

\* a file below a directory that has the name of a standard certificate:
\* /etc/kubernetes/pki/ca.crt/ca.crt
F_pki_ca_nested == PathJoin(F_pki_ca, ca_crt)

\* file systems in which a path of the static fallback table exists without
\* being a regular file, alone and beside a certificate of a minikube cluster
NestedFileSystems == { {F_pki_ca_nested}, {F_pki_ca_nested, F_minikube_ca} }

\* the instants a scan runs at, in half days
NowValues == {0, 1, 60, 61}

\* how many openssl runs of one scan may fail
MaxDecodeFailures == 1

\* how many files may disappear while the certificates are scanned
MaxRemovals == 1

(***************************************************************************)
(* scan_cluster_certificates.                                              *)
(***************************************************************************)
Init ==
    /\ fs \in (SUBSET Files) \cup NestedFileSystems
    /\ cert_base_path \in BasePaths
    /\ now \in NowValues
    /\ \/ api = "ok" /\ pods \in PodLists
       \/ api \in {"none", "error"} /\ pods = <<>>
       \/ api = "pod_error" /\ pods \in PodLists \ {<<>>}
    /\ faults = [decode |-> 0, removed |-> 0]
    /\ pc = "start"
    /\ discovered_certs = <<>>
    /\ filesystem_certs = <<>>
    /\ all_cert_paths = <<>>
    /\ idx = 0
    /\ results = [cluster_type |-> "unknown",
                  certificates |-> <<>>,
                  summary |-> [total_certificates |-> 0, expired |-> 0,
                               expiring_soon |-> 0, valid |-> 0, missing |-> 0]]
    /\ NoClassify
    /\ NoResolve
    /\ NoParse
    /\ NoMonitor
    /\ NoDiscover /\ NoAnalyze

\* lines 115-116 with 'custom' for a cluster without discovered pods
cluster_type_CustomWhenEmpty(discovered, current) ==
    IF discovered # <<>> THEN "kubeadm" ELSE "custom"

\* lines 115-116: the cluster type after the pod-based discovery
cluster_type(discovered, current) ==
    IF discovered # <<>> THEN "kubeadm" ELSE current

\* lines 110-119: pod-based discovery
DiscoverPods ==
    /\ pc = "start"
    /\ discovered_certs' =
          discover_certificates_from_static_pods(api, pods, cert_base_path, fs)
    /\ results' = [results EXCEPT !.cluster_type = cluster_type(discovered_certs', @)]
    /\ pc' = "filesystem"
    /\ UNCHANGED <<envVars, filesystem_certs, all_cert_paths, idx, clVars, rsVars, prVars, monVars, dpVars, anVars>>

\* line 122: filesystem discovery
DiscoverFilesystem ==
    /\ pc = "filesystem"
    /\ filesystem_certs' = discover_certificates_from_filesystem(cert_base_path, fs)
    /\ pc' = "merge"
    /\ UNCHANGED <<envVars, discovered_certs, all_cert_paths, idx, results, clVars, rsVars, prVars, monVars, dpVars, anVars>>

\* line 125: the merge
Merge ==
    /\ pc = "merge"
    /\ all_cert_paths' = merge_cert_paths(filesystem_certs, discovered_certs)
    /\ pc' = "fallback"
    /\ UNCHANGED <<envVars, discovered_certs, filesystem_certs, idx, results, clVars, rsVars, prVars, monVars, dpVars, anVars>>

\* lines 127-130: the static fallback when nothing was discovered
Fallback ==
    /\ pc = "fallback"
    /\ all_cert_paths' = IF all_cert_paths = <<>> THEN get_fallback_cert_paths(fs)
                         ELSE all_cert_paths
    /\ idx' = 1
    /\ pc' = "scan"
    /\ UNCHANGED <<envVars, discovered_certs, filesystem_certs, results, clVars, rsVars, prVars, monVars, dpVars, anVars>>

\* lines 133-148: one iteration of the loop over all_cert_paths
ScanCertificate ==
    /\ pc = "scan"
    /\ idx <= Len(all_cert_paths)
    /\ \E decode_ok \in BOOLEAN :
         /\ ~decode_ok => faults.decode < MaxDecodeFailures
         /\ LET cert_name == all_cert_paths[idx].k
                cert_path == all_cert_paths[idx].v
                cert_info == scan_certificate(cert_name, cert_path, fs, decode_ok, now)
            IN  /\ results' =
                      [results EXCEPT
                         !.certificates = IF cert_info # None THEN Append(@, cert_info[1])
                                          ELSE @,
                         !.summary = update_summary(@, cert_info)]
                /\ faults' = IF decode_ok THEN faults
                             ELSE [faults EXCEPT !.decode = @ + 1]
    /\ idx' = idx + 1
    /\ UNCHANGED <<fs, cert_base_path, pods, api, now, pc, discovered_certs,
                   filesystem_certs, all_cert_paths, clVars, rsVars, prVars, monVars, dpVars, anVars>>

\* lines 150-153: the result is stored and returned
Finish ==
    /\ pc = "scan"
    /\ idx > Len(all_cert_paths)
    /\ pc' = "done"
    /\ UNCHANGED <<envVars, discovered_certs, filesystem_certs, all_cert_paths, idx,
                   results, clVars, rsVars, prVars, monVars, dpVars, anVars>>

\* the environment: a discovered file disappears before it is scanned
FileRemoved ==
    /\ pc = "scan"
    /\ faults.removed < MaxRemovals
    /\ \E i \in idx..Len(all_cert_paths) :
         /\ all_cert_paths[i].v \in fs
         /\ fs' = fs \ {all_cert_paths[i].v}
    /\ faults' = [faults EXCEPT !.removed = @ + 1]
    /\ UNCHANGED <<cert_base_path, pods, api, now, scanVars, clVars, rsVars, prVars, monVars, dpVars, anVars>>

Next ==
    \/ DiscoverPods
    \/ DiscoverFilesystem
    \/ Merge
    \/ Fallback
    \/ ScanCertificate
    \/ Finish
    \/ FileRemoved

Spec == Init /\ [][Next]_vars

(***************************************************************************)
(* Properties of scan_cluster_certificates.                                *)
(***************************************************************************)
Certs == results.certificates

Summary == results.summary

Scanning == pc \in {"scan", "done"}

CountStatus(status) == Cardinality({i \in 1..Len(Certs) : Certs[i].status = status})

NoFaults == faults = [decode |-> 0, removed |-> 0]

\* C1: at every point of a scan total_certificates is the number of records,
\* and expired, expiring_soon and valid are the numbers of records with that
\* status, so that a record of unknown status is counted in the total only.
C1_SummaryCounts ==
    pc # "idle" =>
        /\ Summary.total_certificates = Len(Certs)
        /\ Summary.expired = CountStatus("expired")
        /\ Summary.expiring_soon = CountStatus("expiring_soon")
        /\ Summary.valid = CountStatus("valid")
        /\ Summary.expired + Summary.expiring_soon + Summary.valid
              = Summary.total_certificates - CountStatus("unknown")

\* a finished scan with a record of unknown status beside a valid one
C1_Witness ==
    /\ pc = "done"
    /\ CountStatus("unknown") >= 1
    /\ CountStatus("valid") >= 1
    /\ Summary.total_certificates >= 2

\* the certificate arguments of the listed control-plane pods that the Path
\* Resolver cannot resolve on the present file system
UnresolvedReferences ==
    IF api # "ok" THEN {}
    ELSE { ref \in UNION { UNION { { [pod |-> p, container |-> c, arg |-> a] :
                                        a \in 1..Len(pods[p].containers[c].args) } :
                                   c \in 1..Len(pods[p].containers) } :
                           p \in 1..Len(pods) } :
             LET pod == pods[ref.pod]
                 container == pod.containers[ref.container]
                 arg == container.args[ref.arg]
                 eq == IndexOf(arg, "=")
                 key == SubSeq(arg, 1, eq - 1)
                 value == SubSeq(arg, eq + 1, Len(arg))
                 mount_map == MountMap(container.volume_mounts, VolumeMap(pod.volumes))
             IN  /\ ComponentOf(pod.name) # None
                 /\ eq # 0
                 /\ \E i \in 1..Len(CERT_ARG_PATTERNS) : Contains(key, CERT_ARG_PATTERNS[i])
                 /\ resolve_cert_path(value, mount_map, cert_base_path, fs) = None }

\* C2: every certificate a control-plane pod argument references and the Path
\* Resolver cannot resolve is counted in summary.missing and has no record.
C2_UnresolvedCountedMissing ==
    (pc = "done" /\ faults.removed = 0) =>
        Summary.missing >= Cardinality(UnresolvedReferences)

\* C3: the records and the missing counter together account for every name
\* of the mapping processed so far, one or the other for each name, and for
\* all names of the mapping when the scan is done.
C3_RecordOrMissing ==
    Scanning =>
        /\ Len(Certs) + Summary.missing = idx - 1
        /\ Summary.total_certificates + Summary.missing = idx - 1
        /\ \A i \in 1..Len(Certs) :
              \E j \in 1..(idx - 1) : /\ all_cert_paths[j].k = Certs[i].name
                                      /\ all_cert_paths[j].v = Certs[i].path
        /\ pc = "done" =>
              Summary.total_certificates + Summary.missing = Len(all_cert_paths)

\* a finished scan in which one file had disappeared, one decode had failed
\* and the remaining names still got their records
C3_Witness ==
    /\ pc = "done"
    /\ faults = [decode |-> 1, removed |-> 1]
    /\ Summary.missing = 2
    /\ Summary.total_certificates >= 1

\* C4: the status of a record with a daysUntilExpiry d is expired for d < 0,
\* expiring_soon for 0 <= d < 30 and valid for d >= 30.
C4_StatusFromDays ==
    \A i \in 1..Len(Certs) :
        Certs[i].days_until_expiry # None =>
            LET d == Certs[i].days_until_expiry[1]
                status == Certs[i].status
            IN  /\ d < 0 => status = "expired"
                /\ (0 <= d /\ d < 30) => status = "expiring_soon"
                /\ d >= 30 => status = "valid"
                /\ d = -1 => status = "expired"
                /\ d \in {0, 29} => status = "expiring_soon"
                /\ d = 30 => status = "valid"

\* a certificate with exactly 30 days left was recorded as valid
C4_Witness ==
    \E i \in 1..Len(Certs) :
        Certs[i].days_until_expiry = <<30>> /\ Certs[i].status = "valid"

IsExpiryIssue(issue) == issue[1] \in {"Certificate has expired", "Certificate expires in "}

\* C5: the issues of an expired record hold "Certificate has expired", those
\* of an expiring record hold "Certificate expires in {d} days" for its d, and
\* those of a valid or unknown record hold no expiry entry.
C5_ExpiryIssue ==
    \A i \in 1..Len(Certs) :
        LET r == Certs[i]
        IN  /\ r.status = "expired" => InSeq(<<"Certificate has expired">>, r.issues)
            /\ r.status = "expiring_soon" =>
                  /\ r.days_until_expiry # None
                  /\ InSeq(<<"Certificate expires in ">>
                           \o IntToStr(r.days_until_expiry[1]) \o <<" days">>, r.issues)
            /\ r.status \in {"valid", "unknown"} =>
                  \A j \in 1..Len(r.issues) : ~IsExpiryIssue(r.issues[j])

\* a record with 29 days left carries the issue naming 29 days
C5_Witness ==
    \E i \in 1..Len(Certs) :
        /\ Certs[i].status = "expiring_soon"
        /\ Certs[i].days_until_expiry = <<29>>
        /\ InSeq(<<"Certificate expires in ", "2", "9", " days">>, Certs[i].issues)

\* the text has a Not After line whose date is in the layout strptime expects
HasParsableNotAfter(lines) ==
    \E i \in 1..Len(lines) :
        lines[i].kind = "NotAfter" /\ lines[i].date.fmt = "%b %d %H:%M:%S %Y"

\* the text with the date of every Not After line replaced by a parsable one
WithGoodNotAfter(lines) ==
    [i \in 1..Len(lines) |->
        IF lines[i].kind = "NotAfter" THEN [lines[i] EXCEPT !.date = GoodDate(0)]
        ELSE lines[i]]

\* C6: a record has status unknown exactly when its text has no parsable Not
\* After; then daysUntilExpiry is absent and subject, issuer, not_before, SAN
\* lists and key info are what they are with a parsable date; and a scan
\* of regular files without decode failure or vanished file has a record for
\* every name.
C6_UnknownWhenNoNotAfter ==
    /\ \A i \in 1..Len(Certs) :
          LET r == Certs[i]
              text == CertText(r.path)
              good == parse_openssl_output(r.name, r.path, WithGoodNotAfter(text), now)
          IN  /\ (r.status = "unknown") <=> ~HasParsableNotAfter(text)
              /\ (r.status = "unknown") <=> (DictGet(r.validity, "not_after", None) = None)
              /\ r.status = "unknown" =>
                    /\ r.days_until_expiry = None
                    /\ r.subject = good.subject
                    /\ r.issuer = good.issuer
                    /\ r.san = good.san
                    /\ r.key_info = good.key_info
                    /\ DictGet(r.validity, "not_before", None)
                          = DictGet(good.validity, "not_before", None)
    /\ (pc = "done" /\ NoFaults /\ \A j \in 1..Len(all_cert_paths) :
                                       is_file(all_cert_paths[j].v, fs)) =>
          /\ Len(Certs) = Len(all_cert_paths)
          /\ \A j \in 1..Len(all_cert_paths) :
                Certs[j].name = all_cert_paths[j].k /\ Certs[j].path = all_cert_paths[j].v

\* a record for the certificate whose Not After date does not parse, and one
\* for the certificate without a Not After line, both with their subject read
C6_Witness ==
    /\ pc = "done"
    /\ \E i \in 1..Len(Certs) :
          /\ Certs[i].path = F_pki_etcd_peer
          /\ DictHas(Certs[i].validity, "not_after")
          /\ Certs[i].status = "unknown"
          /\ DictGet(Certs[i].subject, "CN", "") = "master"
    /\ \E i \in 1..Len(Certs) :
          /\ Certs[i].path = F_minikube_ca
          /\ ~DictHas(Certs[i].validity, "not_after")
          /\ Certs[i].status = "unknown"

\* C7: the merged mapping has the names of both discoverers, with the path of
\* the pod-based one for a name it found and the filesystem path otherwise.
C7_MergePrecedence ==
    (pc \in {"fallback", "scan", "done"} /\ (discovered_certs # <<>> \/ filesystem_certs # <<>>))
    =>  /\ DictKeys(all_cert_paths) = DictKeys(discovered_certs) \cup DictKeys(filesystem_certs)
        /\ \A i \in 1..Len(all_cert_paths) :
              LET name == all_cert_paths[i].k
              IN  /\ \A j \in 1..Len(all_cert_paths) : all_cert_paths[j].k = name => j = i
                  /\ all_cert_paths[i].v =
                        IF DictHas(discovered_certs, name)
                        THEN DictGet(discovered_certs, name, None)
                        ELSE DictGet(filesystem_certs, name, None)

\* "ca" found by both at different paths and "apiserver" by the filesystem only
C7_Witness ==
    /\ pc = "scan"
    /\ DictGet(discovered_certs, s_ca, None) = F_minikube_ca
    /\ DictGet(filesystem_certs, s_ca, None) = F_pki_ca
    /\ ~DictHas(discovered_certs, s_apiserver)
    /\ DictGet(filesystem_certs, s_apiserver, None) = F_pki_apiserver
    /\ DictGet(all_cert_paths, s_ca, None) = F_minikube_ca
    /\ DictGet(all_cert_paths, s_apiserver, None) = F_pki_apiserver

\* C9: no path of a discovered mapping and no record lies in a directory that
\* fails the Directory Classifier.
C9_OnlyClassifiedDirectories ==
    pc # "idle" =>
        /\ \A p \in DictValues(discovered_certs) \cup DictValues(filesystem_certs)
                    \cup DictValues(all_cert_paths) :
              is_kubernetes_cert_directory(PathParent(p))
        /\ \A i \in 1..Len(Certs) : is_kubernetes_cert_directory(PathParent(Certs[i].path))

(***************************************************************************)
(* C11.  A relative raw path that exists under the configured base.        *)
(***************************************************************************)
\* the raw path is relative and cert_base_path / raw path exists
RelativeUnderBase ==
    /\ rs_result # <<Unset>>
    /\ ~is_absolute(rs_path_str)
    /\ exists(PathJoin(cert_base_path, rs_path_str), fs)

\* the mounts whose name occurs in the raw string and whose directory holds
\* an entry with the file name of the raw path
MountHits ==
    { i \in 1..Len(rs_mount_map) :
        /\ Contains(rs_path_str, rs_mount_map[i].k)
        /\ exists(PathJoin(rs_mount_map[i].v, PathName(rs_path_str)), fs) }

\* C11 as stated: a relative raw path that exists under the configured base
\* resolves to base/rawpath.
C11_RelativeResolvedUnderBase ==
    RelativeUnderBase => rs_result = PathJoin(cert_base_path, rs_path_str)

\* C11 as amended: a relative raw path that exists under the configured base
\* resolves to base/rawpath unless a mount named in the raw string holds a
\* file of that name; then the file of the first such mount is the result.
C11_RelativeJoinedUnlessMount ==
    RelativeUnderBase =>
        IF MountHits = {}
        THEN rs_result = PathJoin(cert_base_path, rs_path_str)
        ELSE LET first == CHOOSE i \in MountHits : \A j \in MountHits : i <= j
             IN  rs_result = PathJoin(rs_mount_map[first].v, PathName(rs_path_str))

\* ca.crt resolved to /etc/kubernetes/pki/ca.crt with a mount map at hand
\* none of whose names occurs in the raw path
C11_Witness ==
    /\ rs_path_str = ca_crt
    /\ cert_base_path = EtcKubernetesPki
    /\ rs_mount_map # <<>>
    /\ MountHits = {}
    /\ rs_result = F_pki_ca

(***************************************************************************)
(* _parse_openssl_output on its own: one name, one text, called up to      *)
(* MaxParses times while the clock (datetime.utcnow, in half days) may     *)
(* advance between the calls.                                              *)
(***************************************************************************)
L_PublicKeyText(text) == [kind |-> "PublicKey", rest |-> text]

L_Blank == [kind |-> "Blank"]

Bits4096 == <<"4", "0", "9", "6">>

\* the names the texts are parsed under
ParseNames ==
    { s_apiserver, s_apiserver \o s_dash_kubelet_client,
      s_kube_apiserver \o s_dash_etcd_client, s_ca }

\* the validity lines: a Not After that parses, on either side of the
\* thresholds as the clock advances, and one that does not parse
ParseValidity ==
    { <<L_NotBefore(GoodDate(-10)), L_NotAfter(GoodDate(60))>>,
      <<L_NotBefore(GoodDate(-10)), L_NotAfter(GoodDate(1))>>,
      <<L_NotBefore(GoodDate(-10)), L_NotAfter(BadDate)>> }

\* the key lines: none, "Public-Key: (1024 bit)" and "(2048 bit)" as openssl
\* prints them, and "Public-Key: 1024 bit" and "4096 bit" without brackets
ParseKeyLines ==
    { <<>>,
      <<L_PKAlgorithm, L_PublicKey(Bits1024)>>,
      <<L_PKAlgorithm, L_PublicKey(Bits2048)>>,
      <<L_PKAlgorithm, L_PublicKeyText(<<" ">> \o Bits1024 \o <<" ">> \o s_bit)>>,
      <<L_PKAlgorithm, L_PublicKeyText(<<" ">> \o Bits4096 \o <<" ">> \o s_bit)>> }

DnsKubernetes == Tok("DNS", "kubernetes")
DnsDefault == Tok("DNS", "kubernetes.default")
DnsSvc == Tok("DNS", "kubernetes.default.svc")
DnsClusterLocal == Tok("DNS", "kubernetes.default.svc.cluster.local")
IpService == Tok("IP Address", "10.96.0.1")

\* the extension lines: no SAN block; all names on one line; three of the
\* four required names; the names over two continuation lines; names
\* followed by another section whose line holds a DNS: token; and a SAN
\* header followed at once by another extension header and its names
ParseSanBlocks ==
    { <<>>,
      <<L_SANHeader, L_Names(<<DnsKubernetes, DnsDefault, DnsSvc, DnsClusterLocal, IpService>>)>>,
      <<L_SANHeader, L_Names(<<DnsKubernetes, DnsDefault, DnsSvc, IpService>>)>>,
      <<L_SANHeader, L_Names(<<DnsKubernetes, DnsDefault, DnsSvc>>),
        L_Names(<<DnsClusterLocal, IpService>>)>>,
      <<L_SANHeader, L_Names(<<DnsKubernetes, DnsDefault, DnsSvc, DnsClusterLocal>>),
        L_Field, L_Names(<<Tok("DNS", "permitted.example")>>)>>,
      <<L_SANHeader, L_X509v3, L_Names(<<Tok("DNS", "issuer.example")>>)>> }

ParseTexts ==
    { <<L_Field, L_Issuer("kubernetes"), L_Plain>> \o validity
      \o <<L_Subject("kube-apiserver")>> \o keyLines
      \o <<L_X509v3, L_Plain>> \o sanBlock \o <<L_Field, L_Blank>> :
        validity \in ParseValidity, keyLines \in ParseKeyLines, sanBlock \in ParseSanBlocks }

\* how often the text is parsed
MaxParses == 2

\* how far the clock advances, in half days
MaxClock == 2

InitParse ==
    /\ fs = {} /\ cert_base_path = EtcKubernetesPki /\ pods = <<>> /\ api = "none"
    /\ now = 0 /\ faults = <<>>
    /\ pc = "idle" /\ discovered_certs = <<>> /\ filesystem_certs = <<>>
    /\ all_cert_paths = <<>> /\ idx = 0 /\ results = <<>>
    /\ NoClassify /\ NoResolve /\ NoMonitor /\ NoDiscover /\ NoAnalyze
    /\ pr_name \in ParseNames
    /\ pr_lines \in ParseTexts
    /\ pr_records = <<>>

\* one call of _parse_openssl_output(cert_name, cert_path, openssl_output)
ParseOutput ==
    /\ pr_name # Empty
    /\ Len(pr_records) < MaxParses
    /\ pr_records' =
          Append(pr_records, parse_openssl_output(pr_name, PkiFile(pr_name), pr_lines, now))
    /\ UNCHANGED <<envVars, scanVars, clVars, rsVars, monVars, dpVars, anVars, pr_name, pr_lines>>

\* time passes between two calls
ClockAdvance ==
    /\ pr_name # Empty
    /\ now < MaxClock
    /\ now' = now + 1
    /\ UNCHANGED <<fs, cert_base_path, pods, api, faults, scanVars, clVars, rsVars, prVars,
                   monVars, dpVars, anVars>>

NextParse == ParseOutput \/ ClockAdvance

SpecParse == InitParse /\ [][NextParse]_vars

(***************************************************************************)
(* C12.  The SAN rule of the validation.                                   *)
(***************************************************************************)
\* how many issues of the record are the SAN issue for the required name
MissingDNSCount(r, required) ==
    Cardinality({ j \in 1..Len(r.issues) :
                    r.issues[j] = <<"Missing required DNS name in SAN: ", required>> })

\* the record has an issue of the SAN rule
HasMissingDNSIssue(r) ==
    \E j \in 1..Len(r.issues) : r.issues[j][1] = "Missing required DNS name in SAN: "

\* C12: a record whose name contains "apiserver" and neither "kubelet-client"
\* nor "etcd-client" has exactly one "Missing required DNS name in SAN" issue
\* for each of the four required names absent from its SAN DNS list and none
\* for a name that is present; a record of any other name has no SAN issue.
C12_MissingSanNames ==
    \A i \in 1..Len(pr_records) :
        LET r == pr_records[i]
            subject_to_rule ==
                /\ Contains(r.name, s_apiserver)
                /\ ~Contains(r.name, s_kubelet_client)
                /\ ~Contains(r.name, s_etcd_client)
        IN  IF subject_to_rule
            THEN \A required \in {"kubernetes", "kubernetes.default", "kubernetes.default.svc",
                                  "kubernetes.default.svc.cluster.local"} :
                    MissingDNSCount(r, required) =
                        IF InSeq(required, r.san.dns_names) THEN 0 ELSE 1
            ELSE ~HasMissingDNSIssue(r)

\* an apiserver record whose SAN list lacks kubernetes.default.svc.cluster.local
\* and which carries the issue for that name and for no other
C12_Witness ==
    \E i \in 1..Len(pr_records) :
        LET r == pr_records[i]
        IN  /\ r.name = s_apiserver
            /\ r.san.dns_names = <<"kubernetes", "kubernetes.default", "kubernetes.default.svc">>
            /\ MissingDNSCount(r, "kubernetes.default.svc.cluster.local") = 1
            /\ MissingDNSCount(r, "kubernetes") = 0
            /\ MissingDNSCount(r, "kubernetes.default") = 0
            /\ MissingDNSCount(r, "kubernetes.default.svc") = 0

(***************************************************************************)
(* C13.  An error of the cluster API or of the processing of a pod.        *)
(***************************************************************************)
\* the directories the filesystem discoverer reads: the configured base, the
\* minikube and the kubeadm directory when they pass the classifier, and
\* their etcd sub-directories
FilesystemDirs ==
    LET tops == { d \in {cert_base_path, VarLibMinikubeCerts, EtcKubernetesPki} :
                    is_kubernetes_cert_directory(d) }
    IN  tops \cup { PathJoin(d, s_etcd) : d \in tops }

\* C13: when the pod listing or the processing of a listed pod raises, the
\* pod-based mapping is empty and the cluster type stays unknown, the scan
\* goes on: the filesystem discoverer finds the files of its directories (one
\* of them for files of the same name), the
\* mapping scanned is the filesystem mapping or, when that is empty, made of
\* entries of the static table, and the scan ends with a result that
\* accounts for every name of the mapping.
C13_ApiErrorDegrades ==
    api \in {"error", "pod_error"} =>
        /\ pc # "start" => discovered_certs = <<>> /\ results.cluster_type = "unknown"
        /\ pc \in {"merge", "fallback"} =>
              \A f \in fs : PathParent(f) \in FilesystemDirs =>
                  \E g \in DictValues(filesystem_certs) :
                      /\ PathName(g) = PathName(f)
                      /\ g \in fs
                      /\ PathParent(g) \in FilesystemDirs
        /\ pc \in {"scan", "done"} =>
              IF filesystem_certs # <<>> THEN all_cert_paths = filesystem_certs
              ELSE \A i \in 1..Len(all_cert_paths) : InSeq(all_cert_paths[i], standard_paths)
        /\ pc = "done" =>
              Summary.total_certificates + Summary.missing = Len(all_cert_paths)

\* the processing of a listed pod raised and the scan ended with the records
\* of the certificates the filesystem discoverer found
C13_Witness ==
    /\ api = "pod_error"
    /\ pods # <<>>
    /\ pc = "done"
    /\ discovered_certs = <<>>
    /\ filesystem_certs # <<>>
    /\ Len(Certs) = Len(filesystem_certs)

(***************************************************************************)
(* C14.  Parsing the same text twice.                                      *)
(***************************************************************************)
\* the fields of a record that are read from the text alone
TextFields(r) ==
    [name |-> r.name, path |-> r.path, subject |-> r.subject, issuer |-> r.issuer,
     validity |-> r.validity, san |-> r.san, key_info |-> r.key_info]

FileConditions ==
    {"none", "empty", "stat_error", "growing", "bad_json", "unreadable", "valid"}

\* the most JSON files the output directory holds
MaxJsonFiles == 2

\* a JSON file of the output directory: its modification time and its condition
JsonFiles == [mtime : 1..MaxJsonFiles, cond : FileConditions \ {"none"}]

\* line 145: what output_path.glob("*.json") finds, files of distinct
\* modification times
OutputDirs ==
    { d \in SUBSET JsonFiles :
        /\ Cardinality(d) <= MaxJsonFiles
        /\ \A f \in d, g \in d : f.mtime = g.mtime => f = g }

\* line 149: max(json_files, key=lambda f: f.stat().st_mtime)
latest_file(json_files) ==
    CHOOSE f \in json_files : \A g \in json_files : g.mtime <= f.mtime

\* lines 147-149: the condition of the file the pass looks at
latest_cond(json_files) ==
    IF json_files = {} THEN "none" ELSE latest_file(json_files).cond

\* time.sleep(2) of lines 161, 228, 240 and 243
SleepPoll == 2

\* time.sleep(3) of line 165
SleepStable == 3

Send(msg, ok) == [msg |-> msg, ok |-> ok]

\* lines 143-243 with the handler of lines 213-215 left out: a failure of the
\* HTML report reaches the handler of line 230
monitor_pass_HtmlFailureFails(cond, report_ok, notify_ok, html_ok, upload_ok) ==
    LET again(slept) ==
            [sends |-> <<>>, slept |-> slept, pc |-> "loop", ret |-> "none", html |-> "none"]
        failed(sends, html) ==
            IF notify_ok
            THEN [sends |-> sends \o <<Send("error", TRUE)>>, slept |-> SleepStable,
                  pc |-> "returned", ret |-> "False", html |-> html]
            ELSE [sends |-> sends \o <<Send("error", FALSE)>>,
                  slept |-> SleepStable + SleepPoll, pc |-> "loop", ret |-> "none",
                  html |-> html]
    IN  CASE cond \in {"none", "empty", "stat_error"} -> again(SleepPoll)
          [] cond = "growing" -> again(SleepStable + SleepPoll)
          [] cond = "bad_json" -> again(SleepStable + SleepPoll)
          [] cond = "unreadable" -> failed(<<>>, "none")
          [] cond = "valid" ->
                IF ~report_ok THEN failed(<<Send("report", FALSE)>>, "none")
                ELSE IF ~html_ok THEN failed(<<Send("report", TRUE)>>, "generation_failed")
                ELSE IF ~upload_ok
                THEN failed(<<Send("report", TRUE), Send("upload", FALSE)>>, "upload_failed")
                ELSE [sends |-> <<Send("report", TRUE), Send("upload", TRUE)>>,
                      slept |-> SleepStable, pc |-> "returned", ret |-> "True",
                      html |-> "uploaded"]

\* lines 143-243: what one pass of the loop does for a file found in the
\* condition cond: the client calls it makes, the seconds it sleeps, whether
\* it returns, and what became of the HTML report (html_ok: the report is
\* generated, lines 198-202; upload_ok: the upload of line 206 returns).  An
\* exception raised by the error notification of line 233 is raised inside
\* the try of line 157 and is caught by the handler of line 238, which sleeps
\* and continues.
monitor_pass(cond, report_ok, notify_ok, html_ok, upload_ok) ==
    LET again(slept) ==
            [sends |-> <<>>, slept |-> slept, pc |-> "loop", ret |-> "none", html |-> "none"]
        failed(sends) ==
            IF notify_ok
            THEN [sends |-> sends \o <<Send("error", TRUE)>>, slept |-> SleepStable,
                  pc |-> "returned", ret |-> "False", html |-> "none"]
            ELSE [sends |-> sends \o <<Send("error", FALSE)>>,
                  slept |-> SleepStable + SleepPoll, pc |-> "loop", ret |-> "none",
                  html |-> "none"]
        sent(sends, html) ==
            [sends |-> <<Send("report", TRUE)>> \o sends, slept |-> SleepStable,
             pc |-> "returned", ret |-> "True", html |-> html]
    IN  CASE cond \in {"none", "empty", "stat_error"} -> again(SleepPoll)
          [] cond = "growing" -> again(SleepStable + SleepPoll)
          [] cond = "bad_json" -> again(SleepStable + SleepPoll)
          [] cond = "unreadable" -> failed(<<>>)
          [] cond = "valid" ->
                IF ~report_ok THEN failed(<<Send("report", FALSE)>>)
                ELSE IF ~html_ok THEN sent(<<>>, "generation_failed")
                ELSE IF ~upload_ok THEN sent(<<Send("upload", FALSE)>>, "upload_failed")
                ELSE sent(<<Send("upload", TRUE)>>, "uploaded")

\* the values of max_wait_time, in seconds
MonitorMaxWaits == {0, 4, 9}

InitMonitor ==
    /\ fs = {} /\ cert_base_path = EtcKubernetesPki /\ pods = <<>> /\ api = "none"
    /\ now = 0 /\ faults = <<>>
    /\ pc = "idle" /\ discovered_certs = <<>> /\ filesystem_certs = <<>>
    /\ all_cert_paths = <<>> /\ idx = 0 /\ results = <<>>
    /\ NoClassify /\ NoResolve /\ NoParse /\ NoDiscover /\ NoAnalyze
    /\ mon_pc = "loop"
    /\ mon_max_wait \in MonitorMaxWaits
    /\ mon_elapsed = 0
    /\ mon_sends = <<>>
    /\ mon_seen = {}
    /\ mon_ret = "none"
    /\ mon_html = "none"
    /\ mon_dir = {}

\* lines 143-243: one pass of the loop
MonitorPass ==
    /\ mon_pc = "loop"
    /\ mon_elapsed < mon_max_wait
    /\ \E json_files \in OutputDirs, report_ok \in BOOLEAN, notify_ok \in BOOLEAN,
          html_ok \in BOOLEAN, upload_ok \in BOOLEAN :
         LET cond == latest_cond(json_files)
             out == monitor_pass(cond, report_ok, notify_ok, html_ok, upload_ok)
         IN  /\ mon_dir' = json_files
             /\ mon_seen' = mon_seen \cup {cond}
             /\ mon_sends' = mon_sends \o out.sends
             /\ mon_elapsed' = mon_elapsed + out.slept
             /\ mon_pc' = out.pc
             /\ mon_ret' = out.ret
             /\ mon_html' = out.html
    /\ UNCHANGED <<envVars, scanVars, clVars, rsVars, prVars, dpVars, anVars, mon_max_wait>>

\* lines 245-247: the loop has ended, the timeout message is sent
MonitorTimeout ==
    /\ mon_pc = "loop"
    /\ mon_elapsed >= mon_max_wait
    /\ \E ok \in BOOLEAN :
         /\ mon_sends' = Append(mon_sends, Send("timeout", ok))
         /\ mon_pc' = IF ok THEN "returned" ELSE "raised"
         /\ mon_ret' = IF ok THEN "False" ELSE "none"
    /\ UNCHANGED <<envVars, scanVars, clVars, rsVars, prVars, dpVars, anVars, mon_max_wait, mon_elapsed,
                   mon_seen, mon_html, mon_dir>>

NextMonitor == MonitorPass \/ MonitorTimeout

\* the function runs on: time.sleep and the client calls return or raise
SpecMonitor == InitMonitor /\ [][NextMonitor]_vars /\ WF_vars(NextMonitor)

(***************************************************************************)
(* C15.  The report is sent once and decides the value returned.           *)
(***************************************************************************)
SendsOf(msg, ok) == { k \in 1..Len(mon_sends) : mon_sends[k] = Send(msg, ok) }

\* True is returned only after the report was sent
TrueOnlyIfReportSent == mon_ret = "True" => SendsOf("report", TRUE) # {}

\* the report is sent successfully at most once and never sent again after
NoSendAfterSuccess ==
    /\ Cardinality(SendsOf("report", TRUE)) <= 1
    /\ \A k \in SendsOf("report", TRUE) :
          \A l \in (k + 1)..Len(mon_sends) : mon_sends[l].msg # "report"

\* a send of the report that raised is followed by the error notification
\* reaching the channel and by the return of False
FailedSendReturnsFalse ==
    \A k \in SendsOf("report", FALSE) :
        /\ k < Len(mon_sends)
        /\ mon_sends[k + 1] = Send("error", TRUE)
        /\ mon_pc = "returned"
        /\ mon_ret = "False"

\* C15: monitor_certificate_scan returns True only if the report was sent
\* successfully, no step sends the report again after a successful send, and
\* a failed send leads to an error notification and to the return of False.
C15_ReportSentOnce ==
    /\ TrueOnlyIfReportSent
    /\ NoSendAfterSuccess
    /\ FailedSendReturnsFalse

(***************************************************************************)
(* C16.  Termination and the timeout message.                              *)
(***************************************************************************)
Finished == mon_pc \in {"returned", "raised"}

\* the calls that sent, or tried to send, the timeout message
TimeoutSends == { k \in 1..Len(mon_sends) : mon_sends[k].msg = "timeout" }

\* the conditions in which no complete output file is there to process
Incomplete == {"none", "empty", "stat_error", "growing", "bad_json"}

\* C16: when monitor_certificate_scan has ended and no complete output file
\* was processed (no file, an empty file, a file whose size changes, a file
\* that does not parse), the timeout message was sent to the channel once and
\* False was returned.
C16_TimeoutReturnsFalse ==
    (Finished /\ mon_seen \subseteq Incomplete) =>
        /\ Cardinality(SendsOf("timeout", TRUE)) = 1
        /\ Cardinality(TimeoutSends) = 1
        /\ mon_pc = "returned"
        /\ mon_ret = "False"

(***************************************************************************)
(* C17.  The static fallback table.                                        *)
(***************************************************************************)
\* the entries of a mapping, as a set
Entries(d) == { d[i] : i \in 1..Len(d) }

\* C17: the step after the merge leaves a non-empty merged mapping as it is,
\* and replaces an empty one by the entries of the static table whose path
\* exists, each once and in the order of the table.
C17_FallbackWhenEmpty ==
    [][Fallback =>
         LET merged == merge_cert_paths(filesystem_certs, discovered_certs)
         IN  /\ all_cert_paths = merged
             /\ merged # <<>> => all_cert_paths' = merged
             /\ merged = <<>> =>
                   /\ Entries(all_cert_paths')
                         = { e \in Entries(standard_paths) : exists(e.v, fs) }
                   /\ Len(all_cert_paths') = Cardinality(Entries(all_cert_paths'))
                   /\ \A i, j \in 1..Len(all_cert_paths') :
                         i < j => \E a, b \in 1..Len(standard_paths) :
                                     /\ a < b
                                     /\ standard_paths[a] = all_cert_paths'[i]
                                     /\ standard_paths[b] = all_cert_paths'[j]]_vars

\* nothing was discovered, and the table gave the one entry whose path exists
C17_Witness ==
    /\ pc = "scan"
    /\ discovered_certs = <<>>
    /\ filesystem_certs = <<>>
    /\ all_cert_paths = <<[k |-> s_ca, v |-> F_pki_ca]>>
    /\ exists(F_pki_ca, fs)
    /\ ~exists(F_pki_apiserver, fs)

(***************************************************************************)
(* C18.  The key-strength rule of the validation.                          *)
(***************************************************************************)
\* how many issues of the record are the key-strength issue
KeyIssueCount(r) ==
    Cardinality({ j \in 1..Len(r.issues) : r.issues[j][1] = "Key size (" })

\* the number of bits the stored key-size string names, None when it names none
KeyBits(size) ==
    LET ds == SelectSeq(size, IsDigit)
    IN  IF ds = <<>> THEN None ELSE <<DigitsVal(ds)>>

\* C18: a record whose stored key size names fewer than 2048 bits has one
\* key-strength issue; a record with 2048 bits or more, or without a key
\* size, has none.  The size is what the parser stored from the Public-Key
\* line of the text.
C18_KeyStrengthIssue ==
    \A i \in 1..Len(pr_records) :
        LET r == pr_records[i]
            bits == KeyBits(DictGet(r.key_info, "size", Empty))
        IN  KeyIssueCount(r) = IF bits # None /\ bits[1] < MinKeyBits THEN 1 ELSE 0

(***************************************************************************)
(* C19.  The SAN block of the text.                                        *)
(***************************************************************************)
\* the lines that neither continue a block nor start one
NotAHeader == {"Names", "Plain", "Blank"}

\* the values of the tokens of the given types on the continuation lines of
\* the SAN block: the lines after the SAN header up to the next header
RECURSIVE SanBlockTokens(_, _, _)
SanBlockTokens(lines, in_block, types) ==
    IF lines = <<>> THEN <<>>
    ELSE LET line == Head(lines)
             rest(b) == SanBlockTokens(Tail(lines), b, types)
         IN  IF IsKind(line, "SANHeader") THEN rest(TRUE)
             ELSE IF line.kind \notin NotAHeader THEN rest(FALSE)
             ELSE IF in_block /\ IsKind(line, "Names")
             THEN TokensOf(line.tokens, types) \o rest(in_block)
             ELSE rest(in_block)

\* C19: the SAN lists of a record hold the DNS and the IP tokens of every
\* continuation line between the SAN header and the next header of the text,
\* however many such lines there are, and no token of a line after that header.
C19_SanContinuation ==
    \A i \in 1..Len(pr_records) :
        /\ pr_records[i].san.dns_names = SanBlockTokens(pr_lines, FALSE, {"DNS"})
        /\ pr_records[i].san.ip_addresses
              = SanBlockTokens(pr_lines, FALSE, {"IP Address", "IP"})

(***************************************************************************)
(* C20.  The search of the candidate bases.                                *)
(***************************************************************************)
\* step 1 accepts the raw path
DirectAccepted ==
    /\ is_absolute(rs_path_str)
    /\ exists(rs_path_str, fs)
    /\ is_kubernetes_cert_directory(PathParent(rs_path_str))

\* the configured base, then the alternate bases
CandidateBases == <<cert_base_path, VarLibMinikubeCerts, EtcKubernetesPki>>

\* base/filename then base/etcd/filename, base after base
NameCandidates ==
    Flatten([i \in 1..Len(CandidateBases) |->
        << PathJoin(CandidateBases[i], PathName(rs_path_str)),
           PathJoin(PathJoin(CandidateBases[i], s_etcd), PathName(rs_path_str)) >>])

\* the same with, in front of the two of each base, the raw path itself when
\* it lies under that base
PathAndNameCandidates ==
    Flatten([i \in 1..Len(CandidateBases) |->
        (IF is_relative_to(rs_path_str, CandidateBases[i]) THEN <<rs_path_str>> ELSE <<>>)
        \o << PathJoin(CandidateBases[i], PathName(rs_path_str)),
              PathJoin(PathJoin(CandidateBases[i], s_etcd), PathName(rs_path_str)) >>])

\* base/filename then base/etcd/filename of the bases that exist and pass the
\* classifier
ClassifiedNameCandidates ==
    Flatten([i \in 1..Len(CandidateBases) |->
        IF exists(CandidateBases[i], fs) /\ is_kubernetes_cert_directory(CandidateBases[i])
        THEN << PathJoin(CandidateBases[i], PathName(rs_path_str)),
                PathJoin(PathJoin(CandidateBases[i], s_etcd), PathName(rs_path_str)) >>
        ELSE <<>>])

SomeExists(cands) == \E i \in 1..Len(cands) : exists(cands[i], fs)

\* the result is the first path of cands that exists
IsFirstExisting(cands) ==
    \E i \in 1..Len(cands) :
        /\ rs_result = cands[i]
        /\ exists(cands[i], fs)
        /\ \A j \in 1..(i - 1) : ~exists(cands[j], fs)

\* C20 as stated: when step 1 does not accept the raw path, absolute or
\* relative, and base/filename or base/etcd/filename exists for some candidate
\* base, the result is the first of these that exists.
C20_BasesSearchedFirst ==
    (rs_result # <<Unset>> /\ ~DirectAccepted /\ SomeExists(NameCandidates))
        => IsFirstExisting(NameCandidates)

\* C20 as amended: when step 1 does not accept an absolute raw path, the
\* result is the first that exists of, base after base, the raw path itself
\* when it lies under the base, base/filename and base/etcd/filename, whatever
\* the mounts are.  For a relative raw path the bases are not searched at this
\* point: the file of the first mount named in the raw string comes first,
\* then the join with the configured base, and base/filename and
\* base/etcd/filename are tried last, for the bases that exist and pass the
\* classifier.
C20_BasesSearchedForAbsolute ==
    (rs_result # <<Unset>> /\ ~DirectAccepted) =>
        IF is_absolute(rs_path_str)
        THEN SomeExists(PathAndNameCandidates) => IsFirstExisting(PathAndNameCandidates)
        ELSE IF MountHits # {}
        THEN \E i \in MountHits :
                /\ \A j \in MountHits : i <= j
                /\ rs_result = PathJoin(rs_mount_map[i].v, PathName(rs_path_str))
        ELSE IF exists(PathJoin(cert_base_path, rs_path_str), fs)
        THEN rs_result = PathJoin(cert_base_path, rs_path_str)
        ELSE IF SomeExists(ClassifiedNameCandidates)
        THEN IsFirstExisting(ClassifiedNameCandidates)
        ELSE rs_result = None

\* /etc/ssl/certs/pki/ca.crt, refused by step 1, was returned as the path under
\* the configured base although /etc/kubernetes/pki/ca.crt exists, with a
\* mount at hand
C20_Witness ==
    /\ rs_result = F_ssl_nested
    /\ rs_path_str = F_ssl_nested
    /\ cert_base_path = EtcSslCerts
    /\ ~DirectAccepted
    /\ F_pki_ca \in fs
    /\ F_ssl_ca \notin fs
    /\ rs_mount_map # <<>>

(***************************************************************************)
(* C21.  The volume-mount step.                                            *)
(***************************************************************************)
\* the attempts before the mount step have returned nothing
MountStepReached ==
    /\ rs_result # <<Unset>>
    /\ ~DirectAccepted
    /\ is_absolute(rs_path_str) => ~SomeExists(PathAndNameCandidates)

\* the mounts whose name occurs in the raw string
MountsNamed == { i \in 1..Len(rs_mount_map) : Contains(rs_path_str, rs_mount_map[i].k) }

\* the raw path starts with the segment name
LeadingSegment(name) ==
    \/ StartsWith(rs_path_str, name \o Slash)
    \/ StartsWith(rs_path_str, Slash \o name \o Slash)

\* the raw path after its leading segment name
AfterSegment(name) ==
    IF is_absolute(rs_path_str) THEN SubSeq(rs_path_str, Len(name) + 3, Len(rs_path_str))
    ELSE SubSeq(rs_path_str, Len(name) + 2, Len(rs_path_str))

\* the raw path with the mount-name segment replaced by the mount's directory
Substituted(i) == PathJoin(rs_mount_map[i].v, AfterSegment(rs_mount_map[i].k))

\* C21: when the mount step is reached and the first mount named in the raw
\* path is its leading segment, the raw path with that segment replaced by the
\* mount's directory, sub-directories kept, is the result when it exists.
C21_MountSegmentReplaced ==
    \A i \in MountsNamed :
        ( /\ MountStepReached
          /\ \A j \in MountsNamed : i <= j
          /\ LeadingSegment(rs_mount_map[i].k)
          /\ exists(Substituted(i), fs) )
        => rs_result = Substituted(i)

(***************************************************************************)
(* C22.  The deny-list and the directory tree.                             *)
(***************************************************************************)
\* C22: a directory that is neither a deny-listed directory nor below one,
\* and whose path contains "pki" or "kubernetes", is classified true, even
\* when its path begins with the text of a deny-listed directory.
C22_DenyListByTree ==
    (cl_result # None /\ ~UnderAny(cl_dir, system_cert_dirs) /\ HasPkiOrKubernetes(cl_dir))
        => cl_result = <<TRUE>>

(***************************************************************************)
(* _discover_certificates_from_static_pods on its own: the pods listed,    *)
(* one file system, one call.                                              *)
(***************************************************************************)
\* an API server that names its certificate, its CA and its private key, with
\* the certificate directory mounted
PodApiserverKeys ==
    [name |-> s_kube_apiserver \o s_dash_master,
     volumes |-> << [name |-> s_k8s_certs, host_path |-> EtcKubernetesPki] >>,
     containers |->
        << [args |-> << Arg(a_client_ca_file, F_pki_ca),
                        Arg(a_tls_cert_file, F_pki_apiserver),
                        Arg(a_tls_private_key_file, F_pki_apiserver_key) >>,
            volume_mounts |-> << [name |-> s_k8s_certs, mount_path |-> EtcKubernetesPki] >>] >>]

\* an API server without mounts that names the service-account key, and whose
\* --tls-private-key-file has an empty value
PodServiceAccount ==
    [name |-> s_kube_apiserver \o s_dash_master,
     volumes |-> <<>>,
     containers |->
        << [args |-> << Arg(a_service_account_key_file, F_pki_sa_key_pem),
                        Arg(a_tls_private_key_file, Empty) >>,
            volume_mounts |-> <<>>] >>]

\* a controller manager without mounts whose client CA is the minikube CA
PodControllerManager ==
    [name |-> s_kube_controller_manager \o s_dash_master,
     volumes |-> <<>>,
     containers |->
        << [args |-> << Arg(a_client_ca_file, F_minikube_ca),
                        Arg(a_secure_port, s_n6443) >>,
            volume_mounts |-> <<>>] >>]

DiscoverPodLists ==
    { <<PodApiserverKeys>>, <<PodServiceAccount>>, <<PodControllerManager>>,
      <<PodApiserverKeys, PodControllerManager>>,
      <<PodControllerManager, PodApiserverKeys>>,
      <<PodServiceAccount, PodControllerManager>> }

DiscoverFiles ==
    {F_pki_ca, F_pki_apiserver, F_pki_apiserver_key, F_pki_sa_key_pem, F_minikube_ca,
     F_pki_etcd_ca, F_pki_backup_ca, F_ssl_ca}

InitDiscover ==
    /\ fs \in SUBSET DiscoverFiles
    /\ cert_base_path \in BasePaths
    /\ pods \in DiscoverPodLists
    /\ api = "ok" /\ now = 0 /\ faults = <<>>
    /\ pc = "idle" /\ discovered_certs = <<>> /\ filesystem_certs = <<>>
    /\ all_cert_paths = <<>> /\ idx = 0 /\ results = <<>>
    /\ NoClassify /\ NoResolve /\ NoParse /\ NoMonitor /\ NoAnalyze
    /\ dp_result = None
    /\ df_result = None

\* one call of _discover_certificates_from_static_pods
DiscoverFromPods ==
    /\ pods # <<>>
    /\ Len(dp_result) = 0
    /\ dp_result' = <<discover_certificates_from_static_pods(api, pods, cert_base_path, fs)>>
    /\ UNCHANGED <<envVars, scanVars, clVars, rsVars, prVars, monVars, anVars, df_result>>

\* one call of _discover_certificates_from_filesystem
DiscoverFromFilesystem ==
    /\ pods # <<>>
    /\ Len(df_result) = 0
    /\ df_result' = <<discover_certificates_from_filesystem(cert_base_path, fs)>>
    /\ UNCHANGED <<envVars, scanVars, clVars, rsVars, prVars, monVars, anVars, dp_result>>

NextDiscover == DiscoverFromPods \/ DiscoverFromFilesystem

SpecDiscover == InitDiscover /\ [][NextDiscover]_vars

(***************************************************************************)
(* C23.  The names synthesized for the arguments of the pods.              *)
(***************************************************************************)
ArgKey(arg) == SubSeq(arg, 1, IndexOf(arg, "=") - 1)

ArgValue(arg) == SubSeq(arg, IndexOf(arg, "=") + 1, Len(arg))

\* the argument has the form key=value with a recognized key
Recognized(arg) ==
    /\ IndexOf(arg, "=") # 0
    /\ \E i \in 1..Len(CERT_ARG_PATTERNS) : Contains(ArgKey(arg), CERT_ARG_PATTERNS[i])

\* the name table for a component
NameTable(component) ==
    << [k |-> a_tls_cert_file, v |-> component \o <<"-", "s", "e", "r", "v", "e", "r">>],
       [k |-> a_client_ca_file, v |-> <<"c", "a">>],
       [k |-> a_etcd_cafile, v |-> <<"e", "t", "c", "d", "-", "c", "a">>],
       [k |-> a_etcd_certfile, v |-> component \o <<"-">> \o s_etcd_client],
       [k |-> a_kubelet_client_certificate, v |-> component \o <<"-">> \o s_kubelet_client],
       [k |-> a_proxy_client_cert_file,
        v |-> component \o <<"-">> \o s_front_proxy \o <<"-", "c", "l", "i", "e", "n", "t">>] >>

\* the name of the claim for an argument, stem being what it calls the file stem
NameFor(arg, component, stem) ==
    LET table == NameTable(component)
    IN  IF \E i \in 1..Len(table) : table[i].k = ArgKey(arg)
        THEN table[CHOOSE i \in 1..Len(table) : table[i].k = ArgKey(arg)].v
        ELSE IF stem # Empty THEN component \o <<"-">> \o stem
        ELSE component \o <<"-", "c", "e", "r", "t">>

\* the stem of the file name without the texts ".crt", ".pem" and ".key"
StrippedStem(value) ==
    Replace(Replace(Replace(PathStem(value), s_dot_crt, Empty), s_dot_pem, Empty),
            <<".", "k", "e", "y">>, Empty)

\* the entries one container adds, in the order they are processed: one per
\* recognized argument that resolves, named by Name(arg), then the files found
\* in its mounted certificate directories
ContainerEvents(container, volume_map, Name(_)) ==
    LET mount_map == MountMap(container.volume_mounts, volume_map)
        path(arg) == resolve_cert_path(ArgValue(arg), mount_map, cert_base_path, fs)
    IN  Flatten([i \in 1..Len(container.args) |->
            IF Recognized(container.args[i]) /\ path(container.args[i]) # None
            THEN <<[k |-> Name(container.args[i]), v |-> path(container.args[i])]>>
            ELSE <<>>])
        \o Flatten([i \in 1..Len(container.volume_mounts) |->
            IF is_kubernetes_cert_directory(container.volume_mounts[i].mount_path)
            THEN find_certificates_in_directory(container.volume_mounts[i].mount_path, fs)
            ELSE <<>>])

\* the entries the pods add, in the order they are processed;
\* Stem(value) is the file stem used in a name
PodEvents(Stem(_)) ==
    Flatten([p \in 1..Len(pods) |->
        LET component == ComponentOf(pods[p].name)
            Name(arg) == NameFor(arg, component, Stem(ArgValue(arg)))
        IN  IF component = None THEN <<>>
            ELSE Flatten([c \in 1..Len(pods[p].containers) |->
                    ContainerEvents(pods[p].containers[c], VolumeMap(pods[p].volumes),
                                    Name)])])

\* the mapping holds one entry per name of events, with the path of the last
\* event of that name
LastOfEachName(mapping, events) ==
    /\ \A i, j \in 1..Len(mapping) : mapping[i].k = mapping[j].k => i = j
    /\ { mapping[i].k : i \in 1..Len(mapping) } = { events[e].k : e \in 1..Len(events) }
    /\ \A i \in 1..Len(mapping) :
          \E e \in 1..Len(events) :
              /\ events[e] = mapping[i]
              /\ \A l \in (e + 1)..Len(events) : events[l].k # mapping[i].k

\* C23 as stated: a recognized argument that resolves is named by the name
\* table when its key is a key of the table, otherwise {component}-{stem of
\* the file} when that stem is not empty, otherwise {component}-cert, and the
\* mapping keeps one entry per name, that of the last one processed.
C23_NameFromStem ==
    Len(dp_result) = 1 => LastOfEachName(dp_result[1], PodEvents(PathStem))

\* C23 as amended: the same with, in the place of the file stem, the stem
\* without every occurrence of ".crt", ".pem" and ".key".
C23_NameFromStrippedStem ==
    Len(dp_result) = 1 => LastOfEachName(dp_result[1], PodEvents(StrippedStem))

\* the service-account key sa.key.pem was named kube-apiserver-sa, the client
\* CA of the controller manager ca, and the argument with the empty value
\* kube-apiserver-cert
C23_Witness ==
    /\ Len(dp_result) = 1
    /\ pods = <<PodServiceAccount, PodControllerManager>>
    /\ \E i, j, l \in 1..Len(dp_result[1]) :
          /\ dp_result[1][i] = [k |-> s_kube_apiserver \o <<"-", "s", "a">>,
                                v |-> F_pki_sa_key_pem]
          /\ dp_result[1][j] = [k |-> <<"c", "a">>, v |-> F_minikube_ca]
          /\ dp_result[1][l].k = s_kube_apiserver \o <<"-", "c", "e", "r", "t">>

(***************************************************************************)
(* C24.  What the filesystem discoverer returns.                           *)
(***************************************************************************)
\* the candidate directories that pass the classifier
ClassifiedCandidates ==
    { d \in {cert_base_path, VarLibMinikubeCerts, EtcKubernetesPki} :
        is_kubernetes_cert_directory(d) }

\* C24: every entry of the mapping returned is a regular file ending in .crt
\* or .pem whose stem does not contain "key", lying directly inside a
\* candidate directory that passes the classifier and named by its stem, or
\* directly inside the etcd sub-directory of one and named etcd-{stem}; so a
\* configured base that fails the classifier contributes nothing.
C24_OnlyClassifiedCertFiles ==
    Len(df_result) = 1 =>
        \A i \in 1..Len(df_result[1]) :
            LET name == df_result[1][i].k
                file == df_result[1][i].v
            IN  /\ is_file(file, fs)
                /\ \/ EndsWith(PathName(file), <<".", "c", "r", "t">>)
                   \/ EndsWith(PathName(file), <<".", "p", "e", "m">>)
                /\ ~Contains(PathStem(file), <<"k", "e", "y">>)
                /\ \E d \in ClassifiedCandidates :
                      \/ PathParent(file) = d /\ name = PathStem(file)
                      \/ /\ PathParent(file) = PathJoin(d, <<"e", "t", "c", "d">>)
                         /\ name = <<"e", "t", "c", "d", "-">> \o PathStem(file)

\* with the trust store as configured base and every file of the model on
\* disk, the mapping has the CA and the certificate of /etc/kubernetes/pki and
\* the CA of its etcd sub-directory, and neither the key files, nor the copy in
\* the backup sub-directory, nor the file of the trust store
C24_Witness ==
    /\ Len(df_result) = 1
    /\ cert_base_path = EtcSslCerts
    /\ fs = DiscoverFiles
    /\ { df_result[1][i].v : i \in 1..Len(df_result[1]) }
          = {F_pki_ca, F_pki_apiserver, F_pki_etcd_ca}
    /\ \E i \in 1..Len(df_result[1]) :
          df_result[1][i] = [k |-> <<"e", "t", "c", "d", "-", "c", "a">>, v |-> F_pki_etcd_ca]

(***************************************************************************)
(* C25.  A failure of the HTML report.                                     *)
(***************************************************************************)
\* C25: when the HTML report could not be generated or uploaded after the
\* certificate report was sent, the function has returned True, the report
\* was sent once and no error notification was sent after it.
C25_HtmlFailureIgnored ==
    mon_html \in {"generation_failed", "upload_failed"} =>
        /\ mon_pc = "returned"
        /\ mon_ret = "True"
        /\ Cardinality(SendsOf("report", TRUE)) = 1
        /\ \A k \in SendsOf("report", TRUE) :
              \A l \in (k + 1)..Len(mon_sends) : mon_sends[l].msg # "error"

\* the upload raised after the report was sent, and True was returned
C25_Witness ==
    /\ mon_html = "upload_failed"
    /\ mon_ret = "True"
    /\ mon_sends = <<Send("report", TRUE), Send("upload", FALSE)>>

\* the report could not be generated, and True was returned
C25_WitnessGeneration ==
    /\ mon_html = "generation_failed"
    /\ mon_ret = "True"
    /\ mon_sends = <<Send("report", TRUE)>>

(***************************************************************************)
(* C26.  Which file a pass processes and what a failure leads to.          *)
(***************************************************************************)
\* a step that is a pass of the loop: every pass sleeps
PassStep == mon_pc = "loop" /\ mon_elapsed' # mon_elapsed

\* the client calls the step made
NewSends == SubSeq(mon_sends', Len(mon_sends) + 1, Len(mon_sends'))

\* the step ran into a processing error other than a JSON decode error: the
\* file could not be read or analysed, or the send of the report raised
ProcessingError ==
    \/ latest_cond(mon_dir') = "unreadable"
    \/ (NewSends # <<>> /\ NewSends[1] = Send("report", FALSE))

ErrorNotifications(sends) == { k \in 1..Len(sends) : sends[k].msg = "error" }

\* C26: a pass looks at the most recently modified JSON file only, whatever
\* the other files are: when that file is empty or its size changed, nothing
\* is sent; when it does not parse as JSON nothing is sent and the loop goes
\* on; on any other processing error one error notification is sent and
\* False is returned.
C26_OnlyCompleteLatestFile ==
    [][PassStep =>
        /\ (latest_cond(mon_dir') \in {"empty", "growing"} => mon_sends' = mon_sends)
        /\ (latest_cond(mon_dir') = "bad_json" =>
                mon_sends' = mon_sends /\ mon_pc' = "loop")
        /\ (ProcessingError =>
                /\ Cardinality(ErrorNotifications(NewSends)) = 1
                /\ mon_pc' = "returned"
                /\ mon_ret' = "False")]_vars

\* what holds of every pass: an incomplete latest file is never sent
C26_IncompleteFileNotSent ==
    [][PassStep =>
        /\ (latest_cond(mon_dir') \in {"empty", "growing"} => mon_sends' = mon_sends)
        /\ (latest_cond(mon_dir') = "bad_json" =>
                mon_sends' = mon_sends /\ mon_pc' = "loop")]_vars

(***************************************************************************)
(* C27.  Private-key files and the pod discovery.                          *)
(***************************************************************************)
\* the private-key files of the file systems
KeyFiles == {F_pki_apiserver_key, F_pki_sa_key_pem}

\* C27: the mapping the pod discovery returns never gives a name to a
\* private-key file: an argument that names a key file produces no entry.
C27_NoKeyFileMapped ==
    Len(dp_result) = 1 =>
        \A j \in 1..Len(dp_result[1]) : dp_result[1][j].v \notin KeyFiles

(***************************************************************************)
(* The analysis of a scan (analyzer.py).                                   *)
(*                                                                         *)
(* A certificate of the scan results is [name, status, days_until_expiry,  *)
(* not_after, issues], its issues strings.  The analysis is the dictionary *)
(* analyze_results returns; an entry of critical_issues or warnings is     *)
(* [certificate, issue] with expiry_date where the code sets it.           *)
(***************************************************************************)
\* line 114: the substrings that make an issue critical
s_expired ==
    <<"e", "x", "p", "i", "r", "e", "d">>

s_missing_required ==
    <<"m", "i", "s", "s", "i", "n", "g", " ", "r", "e", "q", "u", "i", "r",
      "e", "d">>

\* line 99
s_certificate_has_expired ==
    <<"C", "e", "r", "t", "i", "f", "i", "c", "a", "t", "e", " ", "h", "a",
      "s", " ", "e", "x", "p", "i", "r", "e", "d">>

\* line 108: f'Certificate expires in {days} days'
CertificateExpiresIn(days) ==
    <<"C", "e", "r", "t", "i", "f", "i", "c", "a", "t", "e", " ", "e", "x",
      "p", "i", "r", "e", "s", " ", "i", "n", " ">> \o IntToStr(days) \o
    <<" ", "d", "a", "y", "s">>

\* issue strings of scanner.py lines 712-733 and one of another writer
issue_missing_dns ==
    <<"M", "i", "s", "s", "i", "n", "g", " ", "r", "e", "q", "u", "i", "r",
      "e", "d", " ", "D", "N", "S", " ", "n", "a", "m", "e", " ", "i", "n",
      " ", "S", "A", "N", ":", " ", "k", "u", "b", "e", "r", "n", "e", "t",
      "e", "s">>

issue_key_size ==
    <<"K", "e", "y", " ", "s", "i", "z", "e", " ", "(", "1", "0", "2", "4",
      " ", "b", "i", "t", "s", ")", " ", "i", "s", " ", "b", "e", "l", "o",
      "w", " ", "r", "e", "c", "o", "m", "m", "e", "n", "d", "e", "d", " ",
      "2", "0", "4", "8", " ", "b", "i", "t", "s">>

issue_has_EXPIRED ==
    <<"C", "A", " ", "c", "e", "r", "t", "i", "f", "i", "c", "a", "t", "e",
      " ", "E", "X", "P", "I", "R", "E", "D">>

AnalyzeIssues == {issue_missing_dns, issue_key_size, issue_has_EXPIRED}

\* the most certificates of a scan given to the analysis
MaxAnalyzed == 2

\* the most issues of a certificate
MaxIssues == 2

AnalyzeNames == <<"apiserver", "ca", "etcd-ca">>

IssueLists == UNION { [1..n -> AnalyzeIssues] : n \in 0..MaxIssues }

\* the records a scan writes for the certificate of a name
AnalyzeRecords(name) ==
    { [name |-> name, status |-> st.status, days_until_expiry |-> st.days,
       not_after |-> st.not_after, issues |-> issues] :
        st \in { [status |-> "valid", days |-> 200, not_after |-> "2027-05-22T00:00:00"],
                 [status |-> "expiring_soon", days |-> 12,
                  not_after |-> "2026-11-15T00:00:00"],
                 [status |-> "expired", days |-> -3, not_after |-> "2026-10-31T00:00:00"] },
        issues \in IssueLists }

\* scanner.py lines 136-148: the summary of a list of records and a number of
\* missing certificates
summary_of(certificates, missing) ==
    LET count(status) ==
            Cardinality({ i \in 1..Len(certificates) : certificates[i].status = status })
    IN  [total_certificates |-> Len(certificates), expired |-> count("expired"),
         expiring_soon |-> count("expiring_soon"), valid |-> count("valid"),
         missing |-> missing]

\* the scan results read from the output file
AnalyzeScans ==
    { [certificates |-> certs, summary |-> summary_of(certs, missing)] :
        certs \in UNION { { c \in [1..n -> UNION { AnalyzeRecords(AnalyzeNames[i]) :
                                                    i \in 1..MaxAnalyzed }] :
                              \A i \in 1..n : c[i].name = AnalyzeNames[i] } :
                          n \in 0..MaxAnalyzed },
        missing \in 0..1 }

\* _analyze_certificate (lines 132-150) and lines 74-86: use_case is None, or
\* <<text>> when the AI request answered
analyze_certificate(cert, use_case) ==
    [name |-> cert.name, status |-> cert.status,
     days_until_expiry |-> cert.days_until_expiry, issues |-> cert.issues,
     use_case |-> use_case]

\* lines 55-62
overall_status(summary) ==
    IF summary.expired > 0 THEN "critical"
    ELSE IF summary.expiring_soon > 0 THEN "warning"
    ELSE IF summary.missing > 0 THEN "warning"
    ELSE "healthy"

\* line 114
IsCriticalIssue(issue) ==
    Contains(Lower(issue), s_expired) \/ Contains(Lower(issue), s_missing_required)

\* lines 96-101 and 113-118: the entries one certificate adds to critical_issues
CriticalOf(cert) ==
    (IF cert.status = "expired"
     THEN <<[certificate |-> cert.name, issue |-> s_certificate_has_expired,
             expiry_date |-> cert.not_after]>>
     ELSE <<>>)
    \o Flatten([j \in 1..Len(cert.issues) |->
                  IF IsCriticalIssue(cert.issues[j])
                  THEN <<[certificate |-> cert.name, issue |-> cert.issues[j]]>>
                  ELSE <<>>])

\* lines 104-110 and 119-123: the entries one certificate adds to warnings
WarningsOf(cert) ==
    (IF cert.status = "expiring_soon"
     THEN <<[certificate |-> cert.name,
             issue |-> CertificateExpiresIn(cert.days_until_expiry),
             expiry_date |-> cert.not_after]>>
     ELSE <<>>)
    \o Flatten([j \in 1..Len(cert.issues) |->
                  IF IsCriticalIssue(cert.issues[j]) THEN <<>>
                  ELSE <<[certificate |-> cert.name, issue |-> cert.issues[j]]>>])

\* _generate_recommendations (lines 222-259): the recommendations by what
\* they are about, with the count they state
generate_recommendations(status, summary) ==
    (IF status = "critical"
     THEN <<[about |-> "renew_now", count |-> None],
            [about |-> "kubeadm_renew_all", count |-> None]>> ELSE <<>>)
    \o (IF status = "warning"
        THEN <<[about |-> "schedule_renewal", count |-> None],
               [about |-> "monitoring_alerts", count |-> None]>> ELSE <<>>)
    \o (IF summary.expired > 0
        THEN <<[about |-> "renew_expired", count |-> <<summary.expired>>]>> ELSE <<>>)
    \o (IF summary.expiring_soon > 0
        THEN <<[about |-> "plan_renewal", count |-> <<summary.expiring_soon>>]>>
        ELSE <<>>)
    \o (IF summary.missing > 0
        THEN <<[about |-> "investigate_missing", count |-> <<summary.missing>>]>>
        ELSE <<>>)
    \o <<[about |-> "monitor", count |-> None], [about |-> "automate", count |-> None],
         [about |-> "document", count |-> None]>>

\* analyze_results (lines 30-130).  use_cases[i] is what the AI request for
\* certificate i gave.  The collection of lines 95-123 is indented under the
\* if of line 91, after the loop of line 70 has ended: it runs when a request
\* was made, on the certificate the loop variable was left at.
analyze_results(scan_results, openai_enabled, use_cases) ==
    LET certificates == scan_results.certificates
        summary == scan_results.summary
        status == overall_status(summary)
        details == [i \in 1..Len(certificates) |->
                      analyze_certificate(certificates[i],
                          IF openai_enabled THEN use_cases[i] ELSE None)]
        ai_requests_made == IF openai_enabled THEN Len(certificates) ELSE 0
        collected == ai_requests_made > 0
        cert == certificates[Len(certificates)]
    IN  [overall_status |-> status,
         critical_issues |-> IF collected THEN CriticalOf(cert) ELSE <<>>,
         warnings |-> IF collected THEN WarningsOf(cert) ELSE <<>>,
         recommendations |-> generate_recommendations(status, summary),
         summary |-> summary,
         certificate_details |-> details]

InitAnalyze ==
    /\ NoScan /\ NoClassify /\ NoResolve /\ NoParse /\ NoMonitor /\ NoDiscover
    /\ an_scan \in AnalyzeScans
    /\ an_enabled \in BOOLEAN
    /\ an_analysis = None

\* one call of analyze_results
Analyze ==
    /\ Len(an_analysis) = 0
    /\ \E use_cases \in [1..Len(an_scan.certificates) -> {None, <<"use case">>}] :
         an_analysis' = <<analyze_results(an_scan, an_enabled, use_cases)>>
    /\ UNCHANGED <<envVars, scanVars, clVars, rsVars, prVars, monVars, dpVars, an_scan,
                   an_enabled>>

NextAnalyze == Analyze

SpecAnalyze == InitAnalyze /\ [][NextAnalyze]_vars

(***************************************************************************)
(* C28.  What the analysis collects.                                       *)
(***************************************************************************)
Analysis == an_analysis[1]

HasEntry(entries, name, issue) ==
    \E k \in 1..Len(entries) :
        entries[k].certificate = name /\ entries[k].issue = issue

\* C28: the analysis holds an entry of critical_issues for every certificate
\* of the scan whose status is expired, an entry of warnings for every
\* certificate whose status is expiring_soon, and an entry of critical_issues
\* or of warnings for every issue of every certificate, with and without AI.
C28_EveryProblemCollected ==
    Len(an_analysis) = 1 =>
        \A i \in 1..Len(an_scan.certificates) :
            LET cert == an_scan.certificates[i]
            IN  /\ cert.status = "expired" =>
                      HasEntry(Analysis.critical_issues, cert.name,
                               s_certificate_has_expired)
                /\ cert.status = "expiring_soon" =>
                      HasEntry(Analysis.warnings, cert.name,
                               CertificateExpiresIn(cert.days_until_expiry))
                /\ \A j \in 1..Len(cert.issues) :
                      \/ HasEntry(Analysis.critical_issues, cert.name, cert.issues[j])
                      \/ HasEntry(Analysis.warnings, cert.name, cert.issues[j])

(***************************************************************************)
(* C29.  Names and paths of the records of a scan.                         *)
(***************************************************************************)
\* the records have pairwise distinct names
DistinctNames ==
    \A i \in 1..Len(Certs), j \in 1..Len(Certs) :
        Certs[i].name = Certs[j].name => i = j

\* the records have pairwise distinct paths
DistinctPaths ==
    \A i \in 1..Len(Certs), j \in 1..Len(Certs) :
        Certs[i].path = Certs[j].path => i = j

\* C29: in every scan result the records have pairwise distinct names and
\* pairwise distinct paths: no file is reported under two names.
C29_DistinctNamesAndPaths == pc # "idle" => DistinctNames /\ DistinctPaths

\* the amended C29: the records have pairwise distinct names, and stand in
\* the order of the merged mapping, one record at most for each of its names
C29_DistinctNames ==
    pc # "idle" =>
        /\ DistinctNames
        /\ \A i \in 1..Len(Certs) :
              \E j \in 1..Len(all_cert_paths) :
                  /\ all_cert_paths[j].k = Certs[i].name
                  /\ all_cert_paths[j].v = Certs[i].path

\* a finished scan that reports one file under two names
C29_Witness ==
    /\ pc = "done"
    /\ \E i \in 1..Len(Certs), j \in 1..Len(Certs) :
          i # j /\ Certs[i].path = Certs[j].path /\ Certs[i].name # Certs[j].name

(***************************************************************************)
(* C30.  The cluster type of a scan result.                                *)
(***************************************************************************)
\* C30: once the pod-based discovery has run, the cluster type is kubeadm
\* exactly when that discovery returned an entry and unknown otherwise,
\* wherever the certificates scanned came from; it is never custom.
C30_ClusterType ==
    pc \notin {"idle", "start"} =>
        /\ results.cluster_type = "kubeadm" <=> discovered_certs # <<>>
        /\ results.cluster_type = "unknown" <=> discovered_certs = <<>>
        /\ results.cluster_type # "custom"

\* a finished scan of certificates of the filesystem discoverer alone, with
\* the API answering and no entry from the pods: the type is unknown
C30_Witness ==
    /\ pc = "done"
    /\ api = "ok"
    /\ discovered_certs = <<>>
    /\ filesystem_certs # <<>>
    /\ Len(Certs) > 0
    /\ results.cluster_type = "unknown"

\* a finished scan with entries of the pods: the type is kubeadm
C30_WitnessKubeadm ==
    /\ pc = "done"
    /\ discovered_certs # <<>>
    /\ results.cluster_type = "kubeadm"

=============================================================================
